---- MODULE Spec2Model ----
\* A model of gophertunnel's packet frame decoder (minecraft/packet.go) and of
\* the client side of its resource pack transfer (defaultResourcepackHandler).
EXTENDS Integers, Sequences, FiniteSets, TLC

\* ---------------------------------------------------------------- bounds
\* Longest raw frame (header and payload bytes) handed to ParseData.
MaxLen == 5

\* Largest pack size a catalog or data-info declares (besides the one size of
\* 2^32 bytes), and largest chunk index a chunk-data carries.
MaxSize == 2
\* Largest chunk size a data-info declares, and longest chunk-data fragment.
MaxChunkSize == 2
\* Longest pack the server holds, in whole chunks of packChunkSize (its length
\* may be one byte more).
MaxPackChunks == 2
\* ------------------------------------------------------ program constants
\* packChunkSize, the size of the chunks the server cuts a pack into.
packChunkSize == 131072
\* len(buf) in WriteTo: 0x1000.
blockSize == 4096
\* Largest number of whole blocks in an archive WriteTo is run on.
MaxBlocks == 2
\* Largest component of a version.
MaxVer == 2
\* uint64 and uint32 values are written in limbs of 16 bits.
Limb == 65536
\* Header packs the packet ID in the low 10 bits of the header varuint32.
HeaderIDMask == 1024

VARIABLES
    \* ---- packet frame decoder
    data,           \* the raw frame passed to ParseData
    dpc,            \* "start" | "parsed" | "dropped" | "decoded"
    pd,             \* the packetData ParseData returned (and its error)
    pool,           \* the packet.Pool passed to Decode: a set of known IDs
    proto,          \* the Protocol passed to Decode
    dUnknown,       \* DisconnectOnUnknownPacket
    dInvalid,       \* DisconnectOnInvalidPacket
    ret,            \* what Decode returned, and the calls it made
    \* ---- resource pack transfer, client role (defaultResourcepackHandler)
    hasQueue,       \* r.packQueue has been set by OnResourcePacksInfo
    packAmount,     \* r.packQueue.packAmount
    downloading,    \* r.packQueue.downloadingPacks: pack id -> downloadingPack
    awaiting,       \* r.packQueue.awaitingPacks: the ids mapped to their pack
    packs,          \* the downloadingPack each awaiting id points to (shared
                    \* with the pack's worker): size, chunkSize, expectedIndex, buf
    worker,         \* per pack id, the goroutine OnResourcePackDataInfo launched
    rx,             \* the receive path: idle, or blocked sending on a newFrag channel
    packMu,         \* r.packMu: "free" or the id of the worker holding it
    resourcePacks,  \* r.resourcePacks
    ignoredResourcePacks, \* r.ignoredResourcePacks
    expected,       \* the packet IDs the connection expects next (c.expect)
    sent,           \* the packets handed to c.WritePacket, in order
    ctxDone,        \* r.c.ctx is cancelled (the connection is closed)
    crashed,        \* a handler panicked
    queued,         \* the ids OnResourcePacksInfo queued, in catalog order
    catalog,        \* history: pk.TexturePacks of the ResourcePacksInfo handled
    reads,          \* history: per pack id, the outcomes of the resource.Read
                    \* calls made on its buffer (TRUE for a nil error)
    \* ---- resource pack transfer, server role (defaultResourcepackHandler)
    srvPacks,       \* r.resourcePacks of the listener: uuid, version, length
    toServe,        \* r.packQueue.packsToDownload: the uuids still to be served
    currentPack,    \* r.packQueue.currentPack: an index of srvPacks, 0 for nil
    currentOffset,  \* r.packQueue.currentOffset
    srvExpected,    \* the packet IDs the server's connection expects next
    srvSent,        \* the packets the server handed to c.WritePacket, in order
    loggedIn,       \* r.c.loggedIn
    srvClosed,      \* the server closed the connection (r.c.Close())
    \* ---- package resource: WriteTo and Version.UnmarshalJSON
    wImpl,          \* which WriteTo runs: "Pack" (on an *os.File) or "pack" (on an io.ReaderAt)
    wLen,           \* the length of the pack's archive
    wOff,           \* off
    wOut,           \* the Write calls made on w: the archive range each one carried
    wRet,           \* what WriteTo returned: done, n, err
    vIn,            \* the JSON value handed to Version.UnmarshalJSON
    vOut            \* the receiver and the error returned: done, v, err

decVars == <<data, dpc, pd, pool, proto, dUnknown, dInvalid, ret>>
clientVars == <<hasQueue, packAmount, downloading, awaiting, packs, worker, rx, packMu,
                resourcePacks, ignoredResourcePacks, expected, sent, ctxDone, crashed,
                queued, catalog, reads>>
serverVars == <<srvPacks, toServe, currentPack, currentOffset, srvExpected, srvSent,
                loggedIn, srvClosed>>
resourceVars == <<wImpl, wLen, wOff, wOut, wRet, vIn, vOut>>
vars == <<decVars, clientVars, serverVars, resourceVars>>

\* ================================================================ bytes
\* The byte values frames are drawn from: small values, and two bytes with
\* the varint continuation bit (0x80) set.
Bytes == {0, 1, 2, 129}

RECURSIVE SeqsUpTo(_, _)
SeqsUpTo(S, n) ==
    IF n = 0 THEN {<<>>}
    ELSE LET shorter == SeqsUpTo(S, n - 1)
         IN  shorter \cup {Append(s, b) : s \in {t \in shorter : Len(t) = n - 1}, b \in S}

RECURSIVE Pow2(_)
Pow2(n) == IF n = 0 THEN 1 ELSE 2 * Pow2(n - 1)

Drop(s, n) == SubSeq(s, n + 1, Len(s))

\* protocol.Varuint32: up to five bytes, seven bits each, least significant
\* group first. The result is a uint32: the fifth group is shifted by 28, so
\* only its low four bits are kept.
\* Returns the value, the bytes left and whether reading failed (the buffer
\* ran out, or the fifth byte still had its continuation bit set).
RECURSIVE Varuint32From(_, _, _)
Varuint32From(buf, i, v) ==
    IF i = 5 THEN [ok |-> FALSE, value |-> 0, rest |-> buf]
    ELSE IF buf = <<>> THEN [ok |-> FALSE, value |-> 0, rest |-> buf]
    ELSE LET b  == Head(buf)
             g  == IF i = 4 THEN (b % 128) % 16 ELSE b % 128
             nv == v + g * Pow2(7 * i)
         IN  IF b < 128 THEN [ok |-> TRUE, value |-> nv, rest |-> Tail(buf)]
             ELSE Varuint32From(Tail(buf), i + 1, nv)

Varuint32(buf) == Varuint32From(buf, 0, 0)

\* packet.Header.Read: one varuint32; the packet ID is its low 10 bits, the
\* sender and target sub-client the two bit pairs above them.
HeaderRead(buf) ==
    LET r == Varuint32(buf)
    IN  [ok |-> r.ok,
         PacketID |-> r.value % HeaderIDMask,
         SenderSubClient |-> (r.value \div HeaderIDMask) % 4,
         TargetSubClient |-> (r.value \div (4 * HeaderIDMask)) % 4,
         rest |-> r.rest]

\* ============================================================ ParseData
NoHeader == [PacketID |-> 0, SenderSubClient |-> 0, TargetSubClient |-> 0]

\* A mutant of ParseData: the payload keeps the header bytes.
ParseDataKeepsHeader(raw) ==
    LET h == HeaderRead(raw)
    IN  IF ~h.ok
        THEN [isNil |-> TRUE, err |-> "read packet header", Header |-> NoHeader,
              full |-> <<>>, Payload |-> <<>>]
        ELSE [isNil |-> FALSE, err |-> "nil",
              Header |-> [PacketID |-> h.PacketID, SenderSubClient |-> h.SenderSubClient,
                          TargetSubClient |-> h.TargetSubClient],
              full |-> raw, Payload |-> raw]

\* ParseData(data): read the header off a buffer over data; on failure return
\* (nil, error), otherwise the packetData with the buffer as its Payload.
ParseData(raw) ==
    LET h == HeaderRead(raw)
    IN  IF ~h.ok
        THEN [isNil |-> TRUE, err |-> "read packet header", Header |-> NoHeader,
              full |-> <<>>, Payload |-> <<>>]
        ELSE [isNil |-> FALSE, err |-> "nil",
              Header |-> [PacketID |-> h.PacketID, SenderSubClient |-> h.SenderSubClient,
                          TargetSubClient |-> h.TargetSubClient],
              full |-> raw, Payload |-> h.rest]

\* =============================================================== packets
\* The packets of the pool, by ID: the fields Marshal pulls off the reader, in
\* order. "u8" and "u16" are fixed-width, "enum" is a byte that must be 0 or 1
\* (anything else is an invalid value), "bytes" is a varuint32 length followed
\* by that many bytes.
Layout(id) ==
    CASE id = 1   -> <<"u8">>
      [] id = 2   -> <<"u16">>
      [] id = 129 -> <<"enum", "bytes">>
      [] OTHER    -> <<>>

\* The pools Decode is called with.
Pools == {{1, 2, 129}, {1}}

\* The protocol revisions Decode is called with.
Protos == {"latest", "legacy"}

\* One field read off the reader: the bytes it took, what is left, and whether
\* the reader faulted (too few bytes, an unterminated length, an invalid value).
ReadField(kind, buf) ==
    CASE kind = "u8" ->
            IF Len(buf) < 1 THEN [fault |-> TRUE, val |-> <<>>, rest |-> <<>>]
            ELSE [fault |-> FALSE, val |-> SubSeq(buf, 1, 1), rest |-> Drop(buf, 1)]
      [] kind = "u16" ->
            IF Len(buf) < 2 THEN [fault |-> TRUE, val |-> <<>>, rest |-> <<>>]
            ELSE [fault |-> FALSE, val |-> SubSeq(buf, 1, 2), rest |-> Drop(buf, 2)]
      [] kind = "enum" ->
            IF Len(buf) < 1 THEN [fault |-> TRUE, val |-> <<>>, rest |-> <<>>]
            ELSE IF Head(buf) > 1 THEN [fault |-> TRUE, val |-> <<>>, rest |-> Drop(buf, 1)]
            ELSE [fault |-> FALSE, val |-> SubSeq(buf, 1, 1), rest |-> Drop(buf, 1)]
      [] OTHER ->
            LET n == Varuint32(buf)
            IN  IF ~n.ok THEN [fault |-> TRUE, val |-> <<>>, rest |-> n.rest]
                ELSE IF n.value > Len(n.rest) THEN [fault |-> TRUE, val |-> <<>>, rest |-> n.rest]
                ELSE [fault |-> FALSE, val |-> SubSeq(n.rest, 1, n.value),
                      rest |-> Drop(n.rest, n.value)]

RECURSIVE MarshalFields(_, _, _)
MarshalFields(layout, buf, vals) ==
    IF layout = <<>> THEN [fault |-> FALSE, fields |-> vals, rest |-> buf]
    ELSE LET f == ReadField(Head(layout), buf)
         IN  IF f.fault THEN [fault |-> TRUE, fields |-> vals, rest |-> f.rest]
             ELSE MarshalFields(Tail(layout), f.rest, Append(vals, f.val))

\* pk.Marshal(r) with r a reader over the payload buffer. A pool packet reads
\* its fields; packet.Unknown takes every remaining byte as its payload.
Marshal(pk, buf) ==
    IF pk.typ = "Unknown"
    THEN [fault |-> FALSE, pk |-> [pk EXCEPT !.fields = <<buf>>], rest |-> <<>>]
    ELSE LET m == MarshalFields(Layout(pk.id), buf, <<>>)
         IN  [fault |-> m.fault, pk |-> [pk EXCEPT !.fields = m.fields], rest |-> m.rest]

\* proto.ConvertToLatest(pk, nil): the latest revision returns the packet as it
\* is; the legacy revision rewrites it to the latest one, and splits packet 2
\* into two packets.
ConvertToLatest(rev, pk) ==
    IF rev = "latest" THEN <<pk>>
    ELSE IF pk.id = 2 /\ pk.typ = "Known"
         THEN <<[pk EXCEPT !.rev = "latest"],
                [id |-> 1, typ |-> "Known", rev |-> "latest", fields |-> <<>>]>>
         ELSE <<[pk EXCEPT !.rev = "latest"]>>

\* =============================================================== Decode
NoErr == [kind |-> "nil", id |-> 0, typ |-> "", left |-> 0]
UnknownPacketError(id) == [kind |-> "unknownPacketError", id |-> id, typ |-> "", left |-> 0]
RecoveredErr(id) == [kind |-> "recovered", id |-> id, typ |-> "", left |-> 0]
UnreadErr(pk, n) == [kind |-> "unread bytes left", id |-> 0, typ |-> pk.typ, left |-> n]

\* pool[p.Header.PacketID]: the constructor's fresh packet, or packet.Unknown.
NewPacket(pl, rev, id) ==
    IF id \in pl THEN [id |-> id, typ |-> "Known", rev |-> rev, fields |-> <<>>]
    ELSE [id |-> id, typ |-> "Unknown", rev |-> rev, fields |-> <<>>]

\* Decode from the reader's construction to its return statement, the part that
\* runs with the deferred recover in place. A fault in Marshal leaves the
\* function panicking with the results still at their zero values.
DecodeGuarded(p, pk, rev, disInvalid) ==
    LET m   == Marshal(pk, p.Payload)
        err == IF Len(m.rest) # 0 THEN UnreadErr(m.pk, Len(m.rest)) ELSE NoErr
    IN  IF m.fault
        THEN [pksNil |-> TRUE, pks |-> <<>>, err |-> NoErr, panicking |-> TRUE,
              payload |-> m.rest, marshalCalls |-> 1, convertCalls |-> 0, closeCalls |-> 0]
        ELSE IF disInvalid /\ err.kind # "nil"
        THEN [pksNil |-> TRUE, pks |-> <<>>, err |-> err, panicking |-> FALSE,
              payload |-> m.rest, marshalCalls |-> 1, convertCalls |-> 0, closeCalls |-> 0]
        ELSE [pksNil |-> FALSE, pks |-> ConvertToLatest(rev, m.pk), err |-> err,
              panicking |-> FALSE, payload |-> m.rest, marshalCalls |-> 1,
              convertCalls |-> 1, closeCalls |-> 0]

\* A mutant of the deferred function: it does not recover.
NoRecover(out, id) == out

\* The deferred function: a recovered fault becomes the returned error, which
\* names the packet ID.
DeferredRecover(out, id) ==
    IF out.panicking
    THEN [out EXCEPT !.panicking = FALSE, !.err = RecoveredErr(id)]
    ELSE out

\* A mutant of Decode: an unknown ID never returns early.
DecodeNoEarlyReturn(p, pl, rev, disUnknown, disInvalid) ==
    DeferredRecover(DecodeGuarded(p, NewPacket(pl, rev, p.Header.PacketID), rev, disInvalid),
                    p.Header.PacketID)

\* A mutant of Decode: trailing bytes are returned as an error with the packet
\* even when DisconnectOnInvalidPacket is set.
DecodeKeepsInvalid(p, pl, rev, disUnknown, disInvalid) ==
    IF p.Header.PacketID \notin pl /\ disUnknown
    THEN [pksNil |-> TRUE, pks |-> <<>>, err |-> UnknownPacketError(p.Header.PacketID),
          panicking |-> FALSE, payload |-> p.Payload, marshalCalls |-> 0,
          convertCalls |-> 0, closeCalls |-> 0]
    ELSE DeferredRecover(DecodeGuarded(p, NewPacket(pl, rev, p.Header.PacketID), rev, FALSE),
                         p.Header.PacketID)

\* A mutant of Decode: the unread-bytes check is skipped.
DecodeIgnoresUnread(p, pl, rev, disUnknown, disInvalid) ==
    IF p.Header.PacketID \notin pl /\ disUnknown
    THEN [pksNil |-> TRUE, pks |-> <<>>, err |-> UnknownPacketError(p.Header.PacketID),
          panicking |-> FALSE, payload |-> p.Payload, marshalCalls |-> 0,
          convertCalls |-> 0, closeCalls |-> 0]
    ELSE LET pk == NewPacket(pl, rev, p.Header.PacketID)
             m  == Marshal(pk, p.Payload)
         IN  IF m.fault
             THEN [pksNil |-> TRUE, pks |-> <<>>, err |-> RecoveredErr(p.Header.PacketID),
                   panicking |-> FALSE, payload |-> m.rest, marshalCalls |-> 1,
                   convertCalls |-> 0, closeCalls |-> 0]
             ELSE [pksNil |-> FALSE, pks |-> ConvertToLatest(rev, m.pk), err |-> NoErr,
                   panicking |-> FALSE, payload |-> m.rest, marshalCalls |-> 1,
                   convertCalls |-> 1, closeCalls |-> 0]

\* A mutant of Decode: a pool miss is an error whatever the policy.
DecodeRejectsUnknown(p, pl, rev, disUnknown, disInvalid) ==
    IF p.Header.PacketID \notin pl
    THEN [pksNil |-> TRUE, pks |-> <<>>, err |-> UnknownPacketError(p.Header.PacketID),
          panicking |-> FALSE, payload |-> p.Payload, marshalCalls |-> 0,
          convertCalls |-> 0, closeCalls |-> 0]
    ELSE DeferredRecover(DecodeGuarded(p, NewPacket(pl, rev, p.Header.PacketID), rev, disInvalid),
                         p.Header.PacketID)

\* (*packetData).Decode(pool, proto, close, DisconnectOnUnknownPacket,
\* DisconnectOnInvalidPacket, ShieldID). The result records what is returned,
\* whether a panic leaves the function (panicking), what is left of the payload
\* buffer and how often Marshal, ConvertToLatest and close were called. The
\* close function is a parameter that no statement of Decode calls.
Decode(p, pl, rev, disUnknown, disInvalid) ==
    IF p.Header.PacketID \notin pl /\ disUnknown
    THEN [pksNil |-> TRUE, pks |-> <<>>, err |-> UnknownPacketError(p.Header.PacketID),
          panicking |-> FALSE, payload |-> p.Payload, marshalCalls |-> 0,
          convertCalls |-> 0, closeCalls |-> 0]
    ELSE DeferredRecover(DecodeGuarded(p, NewPacket(pl, rev, p.Header.PacketID), rev, disInvalid),
                         p.Header.PacketID)

NoRet == [pksNil |-> TRUE, pks |-> <<>>, err |-> NoErr, panicking |-> FALSE,
          payload |-> <<>>, marshalCalls |-> 0, convertCalls |-> 0, closeCalls |-> 0]
NoPacketData == [isNil |-> TRUE, err |-> "nil", Header |-> NoHeader,
                 full |-> <<>>, Payload |-> <<>>]

\* The transfer's state before any catalog has arrived: the state after the
\* handler's construction.
PackIDs == {"a", "b"}
NoFrag == [idx |-> 0, len |-> 0]
\* A downloadingPack as OnResourcePacksInfo creates it; sizes are uint64s,
\* written as four 16-bit limbs, most significant first.
NoPack == [size |-> <<0, 0, 0, 0>>, chunkSize |-> 0, expectedIndex |-> 0, buf |-> <<>>]
NoWorker == [pc |-> "none", i |-> 0, chunkCount |-> 0, frag |-> NoFrag,
             token |-> <<>>, outcome |-> ""]
RxIdle == [pc |-> "idle", id |-> "", frag |-> NoFrag]

ClientIdle ==
    /\ hasQueue = FALSE
    /\ packAmount = 0
    /\ downloading = [id \in {} |-> NoPack]
    /\ awaiting = {}
    /\ packs = [id \in PackIDs |-> NoPack]
    /\ worker = [id \in PackIDs |-> NoWorker]
    /\ rx = RxIdle
    /\ packMu = "free"
    /\ resourcePacks = <<>>
    /\ ignoredResourcePacks = <<>>
    /\ expected = {"ResourcePacksInfo"}
    /\ sent = <<>>
    /\ ctxDone = FALSE
    /\ crashed = FALSE
    /\ queued = <<>>
    /\ catalog = <<>>
    /\ reads = [id \in PackIDs |-> <<>>]

\* Package resource at rest: no WriteTo and no UnmarshalJSON is under way.
NoWriteToRet == [done |-> FALSE, n |-> 0, err |-> "nil"]
NoVersionOut == [done |-> FALSE, v |-> <<0, 0, 0>>, err |-> "nil"]
ResourceIdle ==
    /\ wImpl = "none"
    /\ wLen = 0
    /\ wOff = 0
    /\ wOut = <<>>
    /\ wRet = NoWriteToRet
    /\ vIn = [kind |-> "null", str |-> <<>>, num |-> 0, elems |-> <<>>]
    /\ vOut = NoVersionOut

\* The server role before any pack was asked for, holding the packs `store`.
ServerIdle(store) ==
    /\ srvPacks = store
    /\ toServe = {}
    /\ currentPack = 0
    /\ currentOffset = 0
    /\ srvExpected = {"ResourcePackClientResponse"}
    /\ srvSent = <<>>
    /\ loggedIn = FALSE
    /\ srvClosed = FALSE

\* ------------------------------------------------ the decoder's behaviours
InitDecode ==
    /\ data \in SeqsUpTo(Bytes, MaxLen)
    /\ pool \in Pools
    /\ proto \in Protos
    /\ dUnknown \in BOOLEAN
    /\ dInvalid \in BOOLEAN
    /\ dpc = "start"
    /\ pd = NoPacketData
    /\ ret = NoRet
    /\ ClientIdle
    /\ ServerIdle(<<>>)
    /\ ResourceIdle

\* The connection's read loop parses one frame ...
DoParseData ==
    /\ dpc = "start"
    /\ pd' = ParseData(data)
    /\ dpc' = IF pd'.isNil THEN "dropped" ELSE "parsed"
    /\ UNCHANGED <<data, pool, proto, dUnknown, dInvalid, ret, clientVars, serverVars, resourceVars>>

\* ... and decodes it.
DoDecode ==
    /\ dpc = "parsed"
    /\ ret' = Decode(pd, pool, proto, dUnknown, dInvalid)
    /\ dpc' = "decoded"
    /\ UNCHANGED <<data, pd, pool, proto, dUnknown, dInvalid, clientVars, serverVars, resourceVars>>

NextDecode == DoParseData \/ DoDecode

SpecDecode == InitDecode /\ [][NextDecode]_vars

\* -------------------------------------------------- the decoder's claims
\* The packet Decode resolves for the parsed frame, and what its Marshal does
\* with the frame's payload.
Resolved == NewPacket(pool, proto, pd.Header.PacketID)
Unmarshalled == Marshal(Resolved, pd.Payload)
\* Decode gets as far as Marshal: the ID is in the pool, or unknown IDs are tolerated.
ReachesMarshal == pd.Header.PacketID \in pool \/ ~dUnknown

\* C1: a fault raised while the packet is unmarshalled (a truncated payload, an
\* invalid value) never leaves Decode: Decode returns, with no packets and an
\* error that carries the packet's ID.
C1_FaultContained ==
    dpc = "decoded" =>
        /\ ~ret.panicking
        /\ (ReachesMarshal /\ Unmarshalled.fault) =>
              /\ ret.err.kind = "recovered"
              /\ ret.err.id = pd.Header.PacketID
              /\ ret.pksNil

\* A frame for packet 2 (a uint16) with a single payload byte was decoded.
C1_Witness ==
    /\ dpc = "decoded"
    /\ pd.Header.PacketID = 2 /\ 2 \in pool
    /\ Len(pd.Payload) = 1
    /\ ret.err.kind = "recovered"

\* C2: an ID that is not in the pool, with DisconnectOnUnknownPacket false,
\* yields the Unknown placeholder with that ID, passed through ConvertToLatest,
\* and no error.
C2_UnknownTolerated ==
    (dpc = "decoded" /\ pd.Header.PacketID \notin pool /\ ~dUnknown) =>
        /\ ret.err = NoErr
        /\ ~ret.pksNil
        /\ ret.convertCalls = 1
        /\ ret.pks = <<[id |-> pd.Header.PacketID, typ |-> "Unknown", rev |-> "latest",
                        fields |-> <<pd.Payload>>]>>

C2_Witness ==
    /\ dpc = "decoded"
    /\ pd.Header.PacketID \notin pool /\ ~dUnknown
    /\ Len(pd.Payload) = 2
    /\ ~ret.pksNil

\* C3: an ID that is not in the pool, with DisconnectOnUnknownPacket true,
\* returns the unknownPacketError with that ID and no packets; the payload is
\* left untouched and neither Marshal nor ConvertToLatest is called.
C3_UnknownRejected ==
    (dpc = "decoded" /\ pd.Header.PacketID \notin pool /\ dUnknown) =>
        /\ ret.err = [kind |-> "unknownPacketError", id |-> pd.Header.PacketID,
                      typ |-> "", left |-> 0]
        /\ ret.pksNil /\ ret.pks = <<>>
        /\ ret.marshalCalls = 0
        /\ ret.convertCalls = 0
        /\ ret.payload = pd.Payload

C3_Witness ==
    /\ dpc = "decoded"
    /\ pd.Header.PacketID \notin pool /\ dUnknown
    /\ Len(pd.Payload) = 1
    /\ ret.err.kind = "unknownPacketError"

\* C4: when Decode returns the unknown-packet error under
\* DisconnectOnUnknownPacket, it has called the connection's close function.
C4_ClosedOnUnknown ==
    (dpc = "decoded" /\ pd.Header.PacketID \notin pool /\ dUnknown) =>
        ret.closeCalls >= 1

\* C5: when Marshal returns without fault, Decode reports the unread-bytes
\* error if and only if at least one payload byte is left, and the error says
\* how many.
C5_TrailingIffLeft ==
    (dpc = "decoded" /\ ReachesMarshal /\ ~Unmarshalled.fault) =>
        /\ (ret.err.kind = "unread bytes left") <=> (Len(Unmarshalled.rest) >= 1)
        /\ (Len(Unmarshalled.rest) >= 1) => ret.err.left = Len(Unmarshalled.rest)
        /\ (Len(Unmarshalled.rest) = 0) => ret.err = NoErr

\* Packet 1 (one byte) arrived with two payload bytes: one is left unread.
C5_Witness ==
    /\ dpc = "decoded"
    /\ pd.Header.PacketID = 1
    /\ Len(pd.Payload) = 2
    /\ ret.err.kind = "unread bytes left" /\ ret.err.left = 1

\* C6: with bytes left after Marshal, Decode returns the converted packet and
\* the error when DisconnectOnInvalidPacket is false, and the error alone when
\* it is true; under DisconnectOnInvalidPacket it never returns packets with
\* an error.
C6_InvalidPolicy ==
    dpc = "decoded" =>
        /\ (ReachesMarshal /\ ~Unmarshalled.fault /\ Len(Unmarshalled.rest) >= 1) =>
              /\ ret.err.kind = "unread bytes left"
              /\ ~dInvalid => (~ret.pksNil /\ ret.pks = ConvertToLatest(proto, Unmarshalled.pk))
              /\ dInvalid => (ret.pksNil /\ ret.pks = <<>> /\ ret.convertCalls = 0)
        /\ (dInvalid /\ ret.err.kind # "nil") => (ret.pksNil /\ ret.pks = <<>>)

\* Packet 2 arrived with three payload bytes under DisconnectOnInvalidPacket.
C6_Witness ==
    /\ dpc = "decoded"
    /\ dInvalid
    /\ pd.Header.PacketID = 2 /\ 2 \in pool
    /\ Len(pd.Payload) = 3
    /\ ret.pksNil /\ ret.err.kind = "unread bytes left"

\* The raw frame starts with a complete header: k bytes (at most five), the
\* last one without the continuation bit and every earlier one with it.
HeaderEndsAt(raw, k) ==
    /\ k \in 1..Len(raw) /\ k <= 5
    /\ raw[k] < 128
    /\ \A j \in 1..(k - 1) : raw[j] >= 128

\* C7: ParseData returns either a packetData and no error, with the header read
\* and Payload holding exactly the bytes after the header, or nil and an error
\* when the frame holds no complete header; never both and never neither.
C7_ParseDataTotal ==
    dpc # "start" =>
        /\ pd.isNil <=> (pd.err # "nil")
        /\ pd.isNil <=> ~(\E k \in 1..Len(data) : HeaderEndsAt(data, k))
        /\ \A k \in 1..Len(data) :
              (HeaderEndsAt(data, k) /\ ~pd.isNil) =>
                  /\ pd.Payload = SubSeq(data, k + 1, Len(data))
                  /\ pd.full = data
                  /\ pd.Header.PacketID =
                        ((data[1] % 128) + (IF k >= 2 THEN (data[2] % 128) * 128 ELSE 0))
                            % HeaderIDMask

\* A three-byte frame with a two-byte header was parsed: one payload byte.
C7_Witness ==
    /\ dpc = "parsed"
    /\ Len(data) = 3
    /\ data[1] = 129 /\ data[2] < 128
    /\ Len(pd.Payload) = 1

\* ======================================== resource pack transfer: numbers
\* pk.Size and pack.size are uint64s: four limbs, most significant first.
U64(n) == <<0, 0, n \div Limb, n % Limb>>
\* 2^32, the smallest size whose chunk count does not fit the uint32 the
\* handler computes it in.
TwoTo32 == <<0, 1, 0, 0>>

\* 2^63 + 1, a size that int(size) turns into a negative number on the 64-bit
\* build.
TwoTo63Plus1 == <<Limb \div 2, 0, 0, 1>>

\* int(size) as an int, for sizes below 2^31.
FitsInt(u) == u[1] = 0 /\ u[2] = 0 /\ u[3] < Limb \div 2
IntOf(u) == u[3] * Limb + u[4]

\* n >= int(size) and n # int(size), for a buffer length n. On the 64-bit
\* build int(size) is negative for sizes of 2^63 and more.
IntGE(n, u) == IF u[1] >= Limb \div 2 THEN TRUE ELSE FitsInt(u) /\ n >= IntOf(u)
IntNE(n, u) == ~(FitsInt(u) /\ n = IntOf(u))

\* size / uint64(c) and size % uint64(c) by long division, limb by limb.
RECURSIVE DivLimbs(_, _, _, _)
DivLimbs(u, c, rem, q) ==
    IF u = <<>> THEN [q |-> q, r |-> rem]
    ELSE LET cur == rem * Limb + Head(u)
         IN  DivLimbs(Tail(u), c, cur % c, Append(q, cur \div c))

\* uint32(x): the low two limbs.
Uint32Of(u) == <<u[3], u[4]>>
\* chunkCount++ on a uint32.
Uint32Inc(w) ==
    IF w[2] < Limb - 1 THEN <<w[1], w[2] + 1>>
    ELSE IF w[1] < Limb - 1 THEN <<w[1] + 1, 0>>
    ELSE <<0, 0>>
Uint32Int(w) == w[1] * Limb + w[2]

\* A mutant of ChunkCount: the remainder does not add a chunk.
ChunkCountFloor(size, c) == Uint32Int(Uint32Of(DivLimbs(size, c, 0, <<>>).q))

\* chunkCount := uint32(pk.Size / uint64(pk.DataChunkSize)), one more when
\* pk.Size % uint64(pk.DataChunkSize) != 0. Defined for c > 0.
ChunkCount(size, c) ==
    LET d == DivLimbs(size, c, 0, <<>>)
        n == Uint32Of(d.q)
    IN  Uint32Int(IF d.r # 0 THEN Uint32Inc(n) ELSE n)

\* ========================================= resource pack transfer: packets
Versions == {"1.0.0"}
\* The wire form of a pack id: uuid + "_" + version, written as the sequence of
\* its "_"-separated parts, so that strings.Split(s, "_")[0] is its first part.
Token(uuid, version) == <<uuid, version>>
SplitFirst(tok) == tok[1]
\* uuid.Parse succeeds on the ids of PackIDs and on "c", a well-formed id
\* that no catalog lists.
ParsesAsUUID(str) == str \in PackIDs \cup {"c"}

\* The id strings data-info and chunk-data packets carry.
WireIDs == {Token(id, v) : id \in PackIDs, v \in Versions} \cup {<<"c", "1.0.0">>, <<"not-a-uuid">>}

\* Catalogs: sequences of TexturePackInfo entries.
CatalogSizes == {1}
TexturePacks == [UUID : PackIDs, Version : Versions, Size : CatalogSizes]
\* A catalog has as many entries as there are pack ids, at most: room for
\* every id, or for a repeated one.
Catalogs == SeqsUpTo(TexturePacks, Cardinality(PackIDs))

\* The size and chunk size a data-info declares. For pack "a": every small
\* pair, and packs of 2^32 and of 2^63 + 1 bytes in chunks of one byte. For the
\* other ids, which are there to run a second transfer beside the first: two
\* chunks of one byte.
DataInfos(tok) ==
    IF SplitFirst(tok) = "a"
    THEN ({U64(n) : n \in 0..MaxSize} \X (0..MaxChunkSize))
            \cup {<<TwoTo32, 1>>, <<TwoTo63Plus1, 1>>}
    ELSE {<<U64(2), 1>>}

\* Outgoing packets, as handed to c.WritePacket.
ChunkRequest(tok, i) ==
    [typ |-> "ResourcePackChunkRequest", uuid |-> tok, idx |-> i, resp |-> "", list |-> <<>>]
ClientResponse(resp, list) ==
    [typ |-> "ResourcePackClientResponse", uuid |-> <<>>, idx |-> 0, resp |-> resp, list |-> list]

\* What resource.Read makes of a downloaded buffer: an error, or a pack whose
\* manifest names some id and version and has, or has not, a module that holds
\* behaviours.
ReadResults ==
    {[ok |-> FALSE, uuid |-> "", version |-> "", hasBehaviours |-> FALSE]}
        \cup {[ok |-> TRUE, uuid |-> u, version |-> v, hasBehaviours |-> h] :
                    u \in PackIDs, v \in Versions, h \in BOOLEAN}

RECURSIVE SumLen(_)
SumLen(buf) == IF buf = <<>> THEN 0 ELSE Head(buf).len + SumLen(Tail(buf))

Remove(f, k) == [x \in DOMAIN f \ {k} |-> f[x]]
Put(f, k, v) == [x \in DOMAIN f \cup {k} |-> IF x = k THEN v ELSE f[x]]

\* ======================================== resource pack transfer: handlers
\* The receive loop hands the handler a packet only while the connection is
\* open, no earlier handler is still running, and the packet's ID is expected.
Dispatches(id) ==
    /\ ~crashed /\ ~ctxDone
    /\ rx.pc = "idle"
    /\ id \in expected

\* A mutant of PacksInfoLoop: the token of a queued pack is its uuid alone.
RECURSIVE PacksInfoLoopBareUUID(_, _, _, _)
PacksInfoLoopBareUUID(cat, decide, index, st) ==
    IF index > Len(cat) THEN st
    ELSE LET pack == cat[index]
         IN  IF pack.UUID \in DOMAIN st.downloading
             THEN PacksInfoLoopBareUUID(cat, decide, index + 1,
                                        [st EXCEPT !.packAmount = @ - 1])
             ELSE IF ~decide[index]
             THEN PacksInfoLoopBareUUID(cat, decide, index + 1,
                                        [st EXCEPT !.packAmount = @ - 1,
                                                   !.ignored = Append(@, [uuid |-> pack.UUID,
                                                                          version |-> pack.Version])])
             ELSE PacksInfoLoopBareUUID(cat, decide, index + 1,
                                        [st EXCEPT !.toDownload = Append(@, <<pack.UUID>>),
                                                   !.queued = Append(@, pack.UUID),
                                                   !.downloading = Put(@, pack.UUID,
                                                       [NoPack EXCEPT !.size = U64(pack.Size)])])

\* A mutant of PacksInfoLoop: an entry is not looked up in downloadingPacks,
\* so that a repeated id is queued again.
RECURSIVE PacksInfoLoopNoDuplicates(_, _, _, _)
PacksInfoLoopNoDuplicates(cat, decide, index, st) ==
    IF index > Len(cat) THEN st
    ELSE LET pack == cat[index]
         IN  IF ~decide[index]
             THEN PacksInfoLoopNoDuplicates(cat, decide, index + 1,
                                            [st EXCEPT !.packAmount = @ - 1,
                                                       !.ignored = Append(@, [uuid |-> pack.UUID,
                                                                              version |-> pack.Version])])
             ELSE PacksInfoLoopNoDuplicates(cat, decide, index + 1,
                                            [st EXCEPT !.toDownload = Append(@, Token(pack.UUID, pack.Version)),
                                                       !.queued = Append(@, pack.UUID),
                                                       !.downloading = Put(@, pack.UUID,
                                                           [NoPack EXCEPT !.size = U64(pack.Size)])])

\* A mutant of PacksInfoLoop: a rejected pack is not counted off.
RECURSIVE PacksInfoLoopKeepsCount(_, _, _, _)
PacksInfoLoopKeepsCount(cat, decide, index, st) ==
    IF index > Len(cat) THEN st
    ELSE LET pack == cat[index]
         IN  IF pack.UUID \in DOMAIN st.downloading
             THEN PacksInfoLoopKeepsCount(cat, decide, index + 1,
                                          [st EXCEPT !.packAmount = @ - 1])
             ELSE IF ~decide[index]
             THEN PacksInfoLoopKeepsCount(cat, decide, index + 1,
                                          [st EXCEPT !.ignored = Append(@, [uuid |-> pack.UUID,
                                                                            version |-> pack.Version])])
             ELSE PacksInfoLoopKeepsCount(cat, decide, index + 1,
                                          [st EXCEPT !.toDownload = Append(@, Token(pack.UUID, pack.Version)),
                                                     !.queued = Append(@, pack.UUID),
                                                     !.downloading = Put(@, pack.UUID,
                                                         [NoPack EXCEPT !.size = U64(pack.Size)])])

\* The loop of OnResourcePacksInfo over pk.TexturePacks, from entry `index` on.
\* st holds packAmount, downloadingPacks, packsToDownload, the ignored packs
\* and the ids queued. decide[index] is what c.downloadResourcePack answers.
RECURSIVE PacksInfoLoop(_, _, _, _)
PacksInfoLoop(cat, decide, index, st) ==
    IF index > Len(cat) THEN st
    ELSE LET pack == cat[index]
         IN  IF pack.UUID \in DOMAIN st.downloading
             THEN PacksInfoLoop(cat, decide, index + 1,
                                [st EXCEPT !.packAmount = @ - 1])
             ELSE IF ~decide[index]
             THEN PacksInfoLoop(cat, decide, index + 1,
                                [st EXCEPT !.packAmount = @ - 1,
                                           !.ignored = Append(@, [uuid |-> pack.UUID,
                                                                  version |-> pack.Version])])
             ELSE PacksInfoLoop(cat, decide, index + 1,
                                [st EXCEPT !.toDownload = Append(@, Token(pack.UUID, pack.Version)),
                                           !.queued = Append(@, pack.UUID),
                                           !.downloading = Put(@, pack.UUID,
                                               [NoPack EXCEPT !.size = U64(pack.Size)])])

\* The new resourcePackQueue and packsToDownload after the whole loop.
PacksInfoQueue(cat, decide) ==
    PacksInfoLoop(cat, decide, 1,
                  [packAmount |-> Len(cat), downloading |-> [id \in {} |-> NoPack],
                   toDownload |-> <<>>, ignored |-> ignoredResourcePacks, queued |-> <<>>])

\* OnResourcePacksInfo(pk): build the queue, then answer "send packs" or, with
\* nothing to download, "all packs downloaded". It returns nil.
OnResourcePacksInfo(cat, decide) ==
    /\ Dispatches("ResourcePacksInfo")
    /\ LET st == PacksInfoQueue(cat, decide)
       IN  /\ hasQueue' = TRUE
           /\ packAmount' = st.packAmount
           /\ downloading' = st.downloading
           /\ awaiting' = {}
           /\ ignoredResourcePacks' = st.ignored
           /\ queued' = st.queued
           /\ catalog' = cat
           /\ IF Len(st.toDownload) # 0
              THEN /\ expected' = {"ResourcePackDataInfo", "ResourcePackChunkData"}
                   /\ sent' = Append(sent, ClientResponse("SendPacks", st.toDownload))
              ELSE /\ expected' = {"ResourcePackStack"}
                   /\ sent' = Append(sent, ClientResponse("AllPacksDownloaded", <<>>))
    /\ UNCHANGED <<packs, worker, rx, packMu, resourcePacks, ctxDone, crashed, reads, decVars, serverVars, resourceVars>>

\* A mutant of DataInfoResult: the pack is not deleted from downloadingPacks,
\* so that a repeated data-info starts the transfer again.
DataInfoKeepsDownloading(tok, size, chunkSize) ==
    LET id   == SplitFirst(tok)
        same == [err |-> "nil", downloading |-> downloading, awaiting |-> awaiting,
                 packs |-> packs, worker |-> worker, launched |-> FALSE]
    IN  IF ~ParsesAsUUID(id) THEN [same EXCEPT !.err = "invalid UUID"]
        ELSE IF id \notin DOMAIN downloading
        THEN [same EXCEPT !.err = "unknown pack to download"]
        ELSE IF chunkSize = 0 THEN [same EXCEPT !.err = "panic"]
        ELSE [same EXCEPT
                 !.awaiting = awaiting \cup {id},
                 !.packs = [packs EXCEPT ![id] =
                               [downloading[id] EXCEPT !.size = size,
                                                       !.chunkSize = chunkSize]],
                 !.launched = TRUE,
                 !.worker = [worker EXCEPT ![id] =
                                [NoWorker EXCEPT !.pc = "loop",
                                                 !.chunkCount = ChunkCount(size, chunkSize),
                                                 !.token = tok]]]

\* A mutant of DataInfoResult: the pack is looked up in awaitingPacks as well
\* as in downloadingPacks.
DataInfoAcceptsAwaiting(tok, size, chunkSize) ==
    LET id   == SplitFirst(tok)
        same == [err |-> "nil", downloading |-> downloading, awaiting |-> awaiting,
                 packs |-> packs, worker |-> worker, launched |-> FALSE]
    IN  IF ~ParsesAsUUID(id) THEN [same EXCEPT !.err = "invalid UUID"]
        ELSE IF id \notin DOMAIN downloading /\ id \notin awaiting
        THEN [same EXCEPT !.err = "unknown pack to download"]
        ELSE LET pack  == IF id \in DOMAIN downloading THEN downloading[id] ELSE packs[id]
                 moved == [same EXCEPT
                              !.downloading = [x \in DOMAIN downloading \ {id} |-> downloading[x]],
                              !.awaiting = awaiting \cup {id},
                              !.packs = [packs EXCEPT ![id] =
                                            [pack EXCEPT !.size = size,
                                                         !.chunkSize = chunkSize]]]
             IN  IF chunkSize = 0 THEN [moved EXCEPT !.err = "panic"]
                 ELSE [moved EXCEPT
                          !.launched = TRUE,
                          !.worker = [worker EXCEPT ![id] =
                                         [NoWorker EXCEPT !.pc = "loop",
                                                          !.chunkCount = ChunkCount(size, chunkSize),
                                                          !.token = tok]]]

\* What OnResourcePackDataInfo(pk) does in the current state: the error it
\* returns ("nil" for none, "panic" when it faults) and the maps, the pack and
\* the worker it leaves. It moves the pack from downloadingPacks to
\* awaitingPacks and launches its worker; a DataChunkSize of 0 makes the chunk
\* count's division panic, after the maps were changed.
DataInfoResult(tok, size, chunkSize) ==
    LET id   == SplitFirst(tok)
        same == [err |-> "nil", downloading |-> downloading, awaiting |-> awaiting,
                 packs |-> packs, worker |-> worker, launched |-> FALSE]
    IN  IF ~ParsesAsUUID(id) THEN [same EXCEPT !.err = "invalid UUID"]
        ELSE IF id \notin DOMAIN downloading
        THEN [same EXCEPT !.err = "unknown pack to download"]
        ELSE LET moved == [same EXCEPT
                              !.downloading = Remove(downloading, id),
                              !.awaiting = awaiting \cup {id},
                              !.packs = [packs EXCEPT ![id] =
                                            [downloading[id] EXCEPT !.size = size,
                                                                    !.chunkSize = chunkSize]]]
             IN  IF chunkSize = 0 THEN [moved EXCEPT !.err = "panic"]
                 ELSE [moved EXCEPT
                          !.launched = TRUE,
                          !.worker = [worker EXCEPT ![id] =
                                         [NoWorker EXCEPT !.pc = "loop",
                                                          !.chunkCount = ChunkCount(size, chunkSize),
                                                          !.token = tok]]]

OnResourcePackDataInfo(tok, size, chunkSize) ==
    /\ Dispatches("ResourcePackDataInfo")
    /\ LET res == DataInfoResult(tok, size, chunkSize)
       IN  /\ downloading' = res.downloading
           /\ awaiting' = res.awaiting
           /\ packs' = res.packs
           /\ worker' = res.worker
           /\ crashed' = (res.err = "panic")
    /\ UNCHANGED <<hasQueue, packAmount, rx, packMu, resourcePacks, ignoredResourcePacks,
                   expected, sent, ctxDone, queued, catalog, reads, decVars, serverVars, resourceVars>>

\* A mutant of ChunkDataResult: the chunk index is not compared with the
\* pack's expected index.
ChunkDataNoIndexCheck(tok, index, n) ==
    LET id   == SplitFirst(tok)
        same == [err |-> "nil", packs |-> packs, rx |-> rx]
    IN  IF ~ParsesAsUUID(id) THEN [same EXCEPT !.err = "invalid UUID"]
        ELSE IF id \notin awaiting THEN [same EXCEPT !.err = "not being downloaded"]
        ELSE LET pack     == packs[id]
                 lastData == IntGE(SumLen(pack.buf) + pack.chunkSize, pack.size)
             IN  IF ~lastData /\ n # pack.chunkSize THEN [same EXCEPT !.err = "length"]
                 ELSE [same EXCEPT
                          !.packs = [packs EXCEPT ![id].expectedIndex = @ + 1],
                          !.rx = [pc |-> "sending", id |-> id,
                                  frag |-> [idx |-> index, len |-> n]]]

\* A mutant of ChunkDataResult: the pack is not looked up in awaitingPacks.
ChunkDataNoAwaitingCheck(tok, index, n) ==
    LET id   == SplitFirst(tok)
        same == [err |-> "nil", packs |-> packs, rx |-> rx]
    IN  IF ~ParsesAsUUID(id) THEN [same EXCEPT !.err = "invalid UUID"]
        ELSE IF id \notin PackIDs THEN [same EXCEPT !.err = "not being downloaded"]
        ELSE LET pack     == packs[id]
                 lastData == IntGE(SumLen(pack.buf) + pack.chunkSize, pack.size)
             IN  IF ~lastData /\ n # pack.chunkSize THEN [same EXCEPT !.err = "length"]
                 ELSE IF index # pack.expectedIndex THEN [same EXCEPT !.err = "chunk index"]
                 ELSE [same EXCEPT
                          !.packs = [packs EXCEPT ![id].expectedIndex = @ + 1],
                          !.rx = [pc |-> "sending", id |-> id,
                                  frag |-> [idx |-> index, len |-> n]]]

\* What OnResourcePackChunkData(pk) does in the current state, up to its send
\* on the pack's newFrag channel: the error it returns without sending, or
\* ("nil") the pack with its expected index advanced and the fragment it sends.
ChunkDataResult(tok, index, n) ==
    LET id   == SplitFirst(tok)
        same == [err |-> "nil", packs |-> packs, rx |-> rx]
    IN  IF ~ParsesAsUUID(id) THEN [same EXCEPT !.err = "invalid UUID"]
        ELSE IF id \notin awaiting THEN [same EXCEPT !.err = "not being downloaded"]
        ELSE LET pack     == packs[id]
                 lastData == IntGE(SumLen(pack.buf) + pack.chunkSize, pack.size)
             IN  IF ~lastData /\ n # pack.chunkSize THEN [same EXCEPT !.err = "length"]
                 ELSE IF index # pack.expectedIndex THEN [same EXCEPT !.err = "chunk index"]
                 ELSE [same EXCEPT
                          !.packs = [packs EXCEPT ![id].expectedIndex = @ + 1],
                          !.rx = [pc |-> "sending", id |-> id,
                                  frag |-> [idx |-> index, len |-> n]]]

\* The channel is unbuffered: after a fragment passed the checks the handler
\* stays in the send until the pack's worker receives (WorkerReceive), and
\* only then returns nil.
OnResourcePackChunkData(tok, index, n) ==
    /\ Dispatches("ResourcePackChunkData")
    /\ LET res == ChunkDataResult(tok, index, n)
       IN  /\ packs' = res.packs
           /\ rx' = res.rx
    /\ UNCHANGED <<hasQueue, packAmount, downloading, awaiting, worker, packMu, resourcePacks,
                   ignoredResourcePacks, expected, sent, ctxDone, crashed, queued, catalog, reads,
                   decVars, serverVars, resourceVars>>

\* exemptedPacks: the packs every client has, which a stack may list although
\* no catalog announced them. "c" stands for the one such pack.
ExemptedPacks == {[uuid |-> "c", version |-> "1.0.0"]}

\* The entries of a ResourcePackStack packet's TexturePacks, and the stacks.
StackEntries == [UUID : PackIDs \cup {"c", "not-a-uuid"}, Version : Versions \cup {"2.0.0"}]
Stacks == SeqsUpTo(StackEntries, Cardinality(PackIDs))

\* A mutant of HasPack: the exempted packs are not looked at.
HasPackNoExempted(id, version, hasBehaviours) ==
    \/ \E k \in 1..Len(ignoredResourcePacks) :
          ignoredResourcePacks[k].uuid = id /\ ignoredResourcePacks[k].version = version
    \/ \E k \in 1..Len(resourcePacks) :
          /\ resourcePacks[k].uuid = id /\ resourcePacks[k].version = version
          /\ resourcePacks[k].hasBehaviours = hasBehaviours

\* A mutant of HasPack: the packs the download decision rejected are not
\* looked at.
HasPackNoIgnored(id, version, hasBehaviours) ==
    \/ \E e \in ExemptedPacks : e.uuid = id /\ e.version = version
    \/ \E k \in 1..Len(resourcePacks) :
          /\ resourcePacks[k].uuid = id /\ resourcePacks[k].version = version
          /\ resourcePacks[k].hasBehaviours = hasBehaviours

\* hasPack(id, version, hasBehaviours), for an id that uuid.MustParse accepts:
\* an exempted pack, an ignored pack, or a downloaded pack of this id and
\* version that has behaviours or not, as asked.
HasPack(id, version, hasBehaviours) ==
    \/ \E e \in ExemptedPacks : e.uuid = id /\ e.version = version
    \/ \E k \in 1..Len(ignoredResourcePacks) :
          ignoredResourcePacks[k].uuid = id /\ ignoredResourcePacks[k].version = version
    \/ \E k \in 1..Len(resourcePacks) :
          /\ resourcePacks[k].uuid = id /\ resourcePacks[k].version = version
          /\ resourcePacks[k].hasBehaviours = hasBehaviours

\* The loop of OnResourcePackStack over pk.TexturePacks from entry k on: the
\* error it returns ("nil" when every entry passed), or "panic" when
\* uuid.MustParse, which hasPack calls first, is given a string that is no UUID.
RECURSIVE StackLoop(_, _)
StackLoop(stack, k) ==
    IF k > Len(stack) THEN "nil"
    ELSE IF ~ParsesAsUUID(stack[k].UUID) THEN "panic"
    ELSE IF ~HasPack(stack[k].UUID, stack[k].Version, FALSE) THEN "not downloaded"
    ELSE StackLoop(stack, k + 1)

\* What OnResourcePackStack(pk) does in the current state.
StackResult(stack) ==
    LET err == StackLoop(stack, 1)
    IN  IF err = "nil"
        THEN [err |-> err, expected |-> {"StartGame"},
              sent |-> Append(sent, ClientResponse("Completed", <<>>))]
        ELSE [err |-> err, expected |-> expected, sent |-> sent]

\* hasPack takes r.packMu for the ignored and the downloaded packs.
OnResourcePackStack(stack) ==
    /\ Dispatches("ResourcePackStack")
    /\ packMu = "free"
    /\ LET res == StackResult(stack)
       IN  /\ expected' = res.expected
           /\ sent' = res.sent
           /\ crashed' = (res.err = "panic")
    /\ UNCHANGED <<hasQueue, packAmount, downloading, awaiting, packs, worker, rx, packMu,
                   resourcePacks, ignoredResourcePacks, ctxDone, queued, catalog, reads, decVars, serverVars, resourceVars>>

\* ========================================= resource pack transfer: worker
\* The goroutine launched by OnResourcePackDataInfo for pack id.
workerOther == <<hasQueue, downloading, awaiting, ignoredResourcePacks, ctxDone, crashed,
                 queued, catalog, decVars, serverVars, resourceVars>>
workerIdle == <<workerOther, reads>>

\* A mutant of WorkerRequest: the worker does not wait for the fragment
\* before it goes on to the next index.
WorkerRequestNoWait(id) ==
    /\ ~crashed
    /\ worker[id].pc = "loop"
    /\ worker[id].i < worker[id].chunkCount
    /\ sent' = Append(sent, ChunkRequest(worker[id].token, worker[id].i))
    /\ worker' = [worker EXCEPT ![id].i = @ + 1]
    /\ UNCHANGED <<packAmount, packs, rx, packMu, resourcePacks, expected, workerIdle>>

\* for i < chunkCount: WritePacket(ResourcePackChunkRequest{idCopy, i}), then
\* on to the select.
WorkerRequest(id) ==
    /\ ~crashed
    /\ worker[id].pc = "loop"
    /\ worker[id].i < worker[id].chunkCount
    /\ sent' = Append(sent, ChunkRequest(worker[id].token, worker[id].i))
    /\ worker' = [worker EXCEPT ![id].pc = "select"]
    /\ UNCHANGED <<packAmount, packs, rx, packMu, resourcePacks, expected, workerIdle>>

\* select, case frag := <-pack.newFrag: the receive meets the handler's send,
\* and OnResourcePackChunkData returns nil.
WorkerReceive(id) ==
    /\ ~crashed
    /\ worker[id].pc = "select"
    /\ rx.pc = "sending" /\ rx.id = id
    /\ worker' = [worker EXCEPT ![id].pc = "write", ![id].frag = rx.frag]
    /\ rx' = RxIdle
    /\ UNCHANGED <<packAmount, packs, packMu, resourcePacks, expected, sent, workerIdle>>

\* A mutant of WorkerCancelled: the select has no case for ctx.Done().
WorkerNeverCancelled(id) ==
    /\ worker[id].pc = "select"
    /\ ctxDone
    /\ FALSE
    /\ UNCHANGED vars

\* select, case <-r.c.ctx.Done(): return.
WorkerCancelled(id) ==
    /\ ~crashed
    /\ worker[id].pc = "select"
    /\ ctxDone
    /\ worker' = [worker EXCEPT ![id].pc = "exited", ![id].outcome = "cancelled"]
    /\ UNCHANGED <<packAmount, packs, rx, packMu, resourcePacks, expected, sent, workerIdle>>

\* pack.buf.Write(frag); i++.
WorkerWrite(id) ==
    /\ ~crashed
    /\ worker[id].pc = "write"
    /\ packs' = [packs EXCEPT ![id].buf = Append(@, worker[id].frag)]
    /\ worker' = [worker EXCEPT ![id].pc = "loop", ![id].i = @ + 1, ![id].frag = NoFrag]
    /\ UNCHANGED <<packAmount, rx, packMu, resourcePacks, expected, sent, workerIdle>>

\* The loop is over: r.packMu.Lock().
WorkerLock(id) ==
    /\ ~crashed
    /\ worker[id].pc = "loop"
    /\ worker[id].i >= worker[id].chunkCount
    /\ packMu = "free"
    /\ packMu' = id
    /\ worker' = [worker EXCEPT ![id].pc = "locked"]
    /\ UNCHANGED <<packAmount, packs, rx, resourcePacks, expected, sent, workerIdle>>

\* A mutant of WorkerComplete: the response is sent for every pack that parses.
WorkerCompleteAlwaysResponds(id) ==
    /\ ~crashed
    /\ worker[id].pc = "locked"
    /\ packMu' = "free"
    /\ IF IntNE(SumLen(packs[id].buf), packs[id].size)
       THEN /\ worker' = [worker EXCEPT ![id].pc = "exited", ![id].outcome = "size"]
            /\ UNCHANGED <<packAmount, resourcePacks, expected, sent, reads>>
       ELSE \E read \in ReadResults :
              /\ reads' = [reads EXCEPT ![id] = Append(@, read.ok)]
              /\ IF ~read.ok
                 THEN /\ worker' = [worker EXCEPT ![id].pc = "exited", ![id].outcome = "parse"]
                      /\ UNCHANGED <<packAmount, resourcePacks, expected, sent>>
                 ELSE /\ worker' = [worker EXCEPT ![id].pc = "exited", ![id].outcome = "resolved"]
                      /\ packAmount' = packAmount - 1
                      /\ resourcePacks' = Append(resourcePacks,
                                                 [uuid |-> read.uuid, version |-> read.version,
                                                  hasBehaviours |-> read.hasBehaviours])
                      /\ expected' = {"ResourcePackStack"}
                      /\ sent' = Append(sent, ClientResponse("AllPacksDownloaded", <<>>))
    /\ UNCHANGED <<packs, rx, workerOther>>

\* A mutant of WorkerComplete: a pack that fails to parse is counted off too.
WorkerCompleteCountsFailure(id) ==
    /\ ~crashed
    /\ worker[id].pc = "locked"
    /\ packMu' = "free"
    /\ IF IntNE(SumLen(packs[id].buf), packs[id].size)
       THEN /\ worker' = [worker EXCEPT ![id].pc = "exited", ![id].outcome = "size"]
            /\ UNCHANGED <<packAmount, resourcePacks, expected, sent, reads>>
       ELSE \E read \in ReadResults :
              /\ reads' = [reads EXCEPT ![id] = Append(@, read.ok)]
              /\ worker' = [worker EXCEPT ![id].pc = "exited",
                                          ![id].outcome = IF read.ok THEN "resolved" ELSE "parse"]
              /\ packAmount' = packAmount - 1
              /\ resourcePacks' = IF read.ok
                                  THEN Append(resourcePacks,
                                              [uuid |-> read.uuid, version |-> read.version,
                                               hasBehaviours |-> read.hasBehaviours])
                                  ELSE resourcePacks
              /\ IF packAmount - 1 = 0
                 THEN /\ expected' = {"ResourcePackStack"}
                      /\ sent' = Append(sent, ClientResponse("AllPacksDownloaded", <<>>))
                 ELSE UNCHANGED <<expected, sent>>
    /\ UNCHANGED <<packs, rx, workerOther>>

\* A mutant of WorkerComplete: the buffer's length is not compared with the
\* declared size.
WorkerCompleteIgnoresSize(id) ==
    /\ ~crashed
    /\ worker[id].pc = "locked"
    /\ packMu' = "free"
    /\ \E read \in ReadResults :
          /\ reads' = [reads EXCEPT ![id] = Append(@, read.ok)]
          /\ IF ~read.ok
             THEN /\ worker' = [worker EXCEPT ![id].pc = "exited", ![id].outcome = "parse"]
                  /\ UNCHANGED <<packAmount, resourcePacks, expected, sent>>
             ELSE /\ worker' = [worker EXCEPT ![id].pc = "exited", ![id].outcome = "resolved"]
                  /\ packAmount' = packAmount - 1
                  /\ resourcePacks' = Append(resourcePacks,
                                             [uuid |-> read.uuid, version |-> read.version,
                                              hasBehaviours |-> read.hasBehaviours])
                  /\ IF packAmount - 1 = 0
                     THEN /\ expected' = {"ResourcePackStack"}
                          /\ sent' = Append(sent, ClientResponse("AllPacksDownloaded", <<>>))
                     ELSE UNCHANGED <<expected, sent>>
    /\ UNCHANGED <<packs, rx, workerOther>>

\* The completion step under r.packMu, up to the deferred Unlock: check the
\* buffer's length, parse it with resource.Read, count the pack off and, when
\* it was the last, expect the stack and answer "all packs downloaded".
WorkerComplete(id) ==
    /\ ~crashed
    /\ worker[id].pc = "locked"
    /\ packMu' = "free"
    /\ IF IntNE(SumLen(packs[id].buf), packs[id].size)
       THEN /\ worker' = [worker EXCEPT ![id].pc = "exited", ![id].outcome = "size"]
            /\ UNCHANGED <<packAmount, resourcePacks, expected, sent, reads>>
       ELSE \E read \in ReadResults :
              /\ reads' = [reads EXCEPT ![id] = Append(@, read.ok)]
              /\ IF ~read.ok
                 THEN /\ worker' = [worker EXCEPT ![id].pc = "exited", ![id].outcome = "parse"]
                      /\ UNCHANGED <<packAmount, resourcePacks, expected, sent>>
                 ELSE /\ worker' = [worker EXCEPT ![id].pc = "exited", ![id].outcome = "resolved"]
                      /\ packAmount' = packAmount - 1
                      /\ resourcePacks' = Append(resourcePacks,
                                                 [uuid |-> read.uuid, version |-> read.version,
                                                  hasBehaviours |-> read.hasBehaviours])
                      /\ IF packAmount - 1 = 0
                         THEN /\ expected' = {"ResourcePackStack"}
                              /\ sent' = Append(sent, ClientResponse("AllPacksDownloaded", <<>>))
                         ELSE UNCHANGED <<expected, sent>>
    /\ UNCHANGED <<packs, rx, workerOther>>

\* The connection is closed: its context is cancelled.
Cancel ==
    /\ ~crashed
    /\ ~ctxDone
    /\ ctxDone' = TRUE
    /\ UNCHANGED <<hasQueue, packAmount, downloading, awaiting, packs, worker, rx, packMu,
                   resourcePacks, ignoredResourcePacks, expected, sent, crashed, queued, catalog, reads,
                   decVars, serverVars, resourceVars>>

\* ===================================== resource pack transfer: server role
\* The lengths of the packs the listener holds: one byte, and around each
\* whole number of chunks.
PackLens ==
    {1} \cup UNION {{k * packChunkSize, k * packChunkSize + 1} : k \in 1..MaxPackChunks}

\* The listener's resource packs: each id at most once.
Stores ==
    {st \in SeqsUpTo([uuid : PackIDs, version : Versions, len : PackLens],
                      Cardinality(PackIDs)) :
        \A i, j \in 1..Len(st) : st[i].uuid = st[j].uuid => i = j}

\* The PacksToDownload lists of a "send packs" response: tokens of the ids, and
\* of an id the listener has no pack for.
RequestLists ==
    SeqsUpTo({Token(id, v) : id \in PackIDs \cup {"c"}, v \in Versions}, Cardinality(PackIDs))

\* The UUID strings of chunk-requests.
RequestIDs == PackIDs \cup {"c", "not-a-uuid"}

\* Pack.DataChunkCount(length): ceil(Len() / length).
DataChunkCount(len, length) ==
    IF len % length # 0 THEN len \div length + 1 ELSE len \div length

\* Packets the server sends.
DataInfoPacket(pack) ==
    [typ |-> "ResourcePackDataInfo", uuid |-> pack.uuid, idx |-> 0, offset |-> 0, len |-> 0,
     size |-> pack.len, chunkSize |-> packChunkSize,
     chunkCount |-> DataChunkCount(pack.len, packChunkSize), list |-> <<>>]
ChunkDataPacket(uuid, index, offset, n) ==
    [typ |-> "ResourcePackChunkData", uuid |-> uuid, idx |-> index, offset |-> offset,
     len |-> n, size |-> 0, chunkSize |-> 0, chunkCount |-> 0, list |-> <<>>]
StackPacket(list) ==
    [typ |-> "ResourcePackStack", uuid |-> "", idx |-> 0, offset |-> 0, len |-> 0,
     size |-> 0, chunkSize |-> 0, chunkCount |-> 0, list |-> list]

\* The server's queue and connection state, as the handlers pass it on.
SrvNow ==
    [toServe |-> toServe, currentPack |-> currentPack, currentOffset |-> currentOffset,
     expected |-> srvExpected, sent |-> srvSent]

SrvDispatches(id) == ~srvClosed /\ id \in srvExpected

\* resourcePackQueue.Request(packs): look every token up among the queue's
\* packs by uuid + "_" + version; the first one without a pack is an error.
RECURSIVE Request(_, _, _)
Request(list, k, acc) ==
    IF k > Len(list) THEN [err |-> "nil", toServe |-> acc]
    ELSE IF \E i \in 1..Len(srvPacks) :
                Token(srvPacks[i].uuid, srvPacks[i].version) = list[k]
    THEN Request(list, k + 1, acc \cup {SplitFirst(list[k])})
    ELSE [err |-> "could not find resource pack", toServe |-> acc]

\* resourcePackQueue.AllDownloaded().
AllDownloaded(st) == st.toServe = {}

\* resourcePackQueue.NextPack(): the first pack of the queue's packs that is
\* still to be served becomes the current pack, at offset 0.
NextPack(st) ==
    LET cands == {i \in 1..Len(srvPacks) : srvPacks[i].uuid \in st.toServe}
    IN  IF cands = {} THEN [ok |-> FALSE, st |-> st, pk |-> StackPacket(<<>>)]
        ELSE LET i == CHOOSE x \in cands : \A y \in cands : x <= y
             IN  [ok |-> TRUE,
                  st |-> [st EXCEPT !.toServe = @ \ {srvPacks[i].uuid},
                                    !.currentPack = i,
                                    !.currentOffset = 0],
                  pk |-> DataInfoPacket(srvPacks[i])]

\* nextResourcePackDownload(): send the next pack's data-info and expect
\* chunk-requests.
nextResourcePackDownload(st) ==
    LET np == NextPack(st)
    IN  IF ~np.ok THEN [err |-> "no resource packs to download", st |-> st]
        ELSE [err |-> "nil",
              st |-> [np.st EXCEPT !.sent = Append(@, np.pk),
                                   !.expected = {"ResourcePackChunkRequest"}]]

\* What OnResourcePackClientResponse(pk) does in the current state.
ClientResponseResult(resp, list) ==
    LET same == [err |-> "nil", st |-> SrvNow, loggedIn |-> loggedIn, closed |-> srvClosed]
    IN  CASE resp = "Refused" -> [same EXCEPT !.closed = TRUE]
          [] resp = "SendPacks" ->
                LET rq == Request(list, 1, {})
                    q  == [SrvNow EXCEPT !.toServe = rq.toServe, !.currentPack = 0,
                                         !.currentOffset = 0]
                IN  IF rq.err # "nil" THEN [same EXCEPT !.err = rq.err, !.st = q]
                    ELSE LET nx == nextResourcePackDownload(q)
                         IN  [same EXCEPT !.err = nx.err, !.st = nx.st]
          [] resp = "AllPacksDownloaded" ->
                [same EXCEPT !.st.sent =
                    Append(@, StackPacket(
                        [i \in 1..Len(srvPacks) |->
                            [uuid |-> srvPacks[i].uuid, version |-> srvPacks[i].version]]))]
          [] resp = "Completed" -> [same EXCEPT !.loggedIn = TRUE]
          [] OTHER -> [same EXCEPT !.err = "unknown resource pack client response"]

OnResourcePackClientResponse(resp, list) ==
    /\ SrvDispatches("ResourcePackClientResponse")
    /\ LET res == ClientResponseResult(resp, list)
       IN  /\ toServe' = res.st.toServe
           /\ currentPack' = res.st.currentPack
           /\ currentOffset' = res.st.currentOffset
           /\ srvExpected' = res.st.expected
           /\ srvSent' = res.st.sent
           /\ loggedIn' = res.loggedIn
           /\ srvClosed' = res.closed
    /\ UNCHANGED <<srvPacks, decVars, clientVars, resourceVars>>

\* current.ReadAt(b, off) on a file of len bytes, for len(b) = packChunkSize:
\* the bytes read and the error: "nil" when the whole of b was filled, "EOF"
\* when the file ended before that, "io" when the read failed.
ReadAt(len, off, ioErr) ==
    IF ioErr THEN [n |-> 0, err |-> "io"]
    ELSE IF off >= len THEN [n |-> 0, err |-> "EOF"]
    ELSE IF len - off < packChunkSize THEN [n |-> len - off, err |-> "EOF"]
    ELSE [n |-> packChunkSize, err |-> "nil"]

\* A mutant of ChunkRequestResult: the chunk index is not compared with the
\* tracked offset.
ChunkRequestNoOffsetCheck(uuid, index, ioErr) ==
    LET same == [err |-> "nil", st |-> SrvNow]
    IN  IF ~ParsesAsUUID(uuid) THEN [same EXCEPT !.err = "invalid UUID"]
        ELSE IF srvPacks[currentPack].uuid # uuid THEN [same EXCEPT !.err = "unexpected UUID"]
        ELSE LET off == currentOffset
                 st1 == [SrvNow EXCEPT !.currentOffset = off + packChunkSize]
                 rd  == ReadAt(srvPacks[currentPack].len, off, ioErr)
                 st2 == [st1 EXCEPT !.sent = Append(@, ChunkDataPacket(uuid, index, off, rd.n))]
             IN  IF rd.err = "io" THEN [err |-> "error reading resource pack chunk", st |-> st1]
                 ELSE IF rd.err = "EOF"
                 THEN IF ~AllDownloaded(st2)
                      THEN [err |-> "nil", st |-> nextResourcePackDownload(st2).st]
                      ELSE [err |-> "nil",
                            st |-> [st2 EXCEPT !.expected = {"ResourcePackClientResponse"}]]
                 ELSE [err |-> "nil", st |-> st2]

\* A mutant of ChunkRequestResult: on end-of-stream the next pack's data-info
\* is sent at once, ahead of the chunk.
ChunkRequestAdvancesFirst(uuid, index, ioErr) ==
    LET same == [err |-> "nil", st |-> SrvNow]
    IN  IF ~ParsesAsUUID(uuid) THEN [same EXCEPT !.err = "invalid UUID"]
        ELSE IF srvPacks[currentPack].uuid # uuid THEN [same EXCEPT !.err = "unexpected UUID"]
        ELSE IF currentOffset # index * packChunkSize
        THEN [same EXCEPT !.err = "unexpected chunk index"]
        ELSE LET off == currentOffset
                 st1 == [SrvNow EXCEPT !.currentOffset = off + packChunkSize]
                 rd  == ReadAt(srvPacks[currentPack].len, off, ioErr)
                 pk  == ChunkDataPacket(uuid, index, off, rd.n)
                 st2 == [st1 EXCEPT !.sent = Append(@, pk)]
             IN  IF rd.err = "io" THEN [err |-> "error reading resource pack chunk", st |-> st1]
                 ELSE IF rd.err = "EOF"
                 THEN IF ~AllDownloaded(st1)
                      THEN [err |-> "nil",
                            st |-> [nextResourcePackDownload(st1).st EXCEPT
                                       !.sent = Append(@, pk)]]
                      ELSE [err |-> "nil",
                            st |-> [st2 EXCEPT !.expected = {"ResourcePackClientResponse"}]]
                 ELSE [err |-> "nil", st |-> st2]

\* What OnResourcePackChunkRequest(pk) does in the current state.
ChunkRequestResult(uuid, index, ioErr) ==
    LET same == [err |-> "nil", st |-> SrvNow]
    IN  IF ~ParsesAsUUID(uuid) THEN [same EXCEPT !.err = "invalid UUID"]
        ELSE IF srvPacks[currentPack].uuid # uuid THEN [same EXCEPT !.err = "unexpected UUID"]
        ELSE IF currentOffset # index * packChunkSize
        THEN [same EXCEPT !.err = "unexpected chunk index"]
        ELSE LET off == currentOffset
                 st1 == [SrvNow EXCEPT !.currentOffset = off + packChunkSize]
                 rd  == ReadAt(srvPacks[currentPack].len, off, ioErr)
                 st2 == [st1 EXCEPT !.sent = Append(@, ChunkDataPacket(uuid, index, off, rd.n))]
             IN  IF rd.err = "io" THEN [err |-> "error reading resource pack chunk", st |-> st1]
                 ELSE IF rd.err = "EOF"
                 THEN IF ~AllDownloaded(st2)
                      THEN [err |-> "nil", st |-> nextResourcePackDownload(st2).st]
                      ELSE [err |-> "nil",
                            st |-> [st2 EXCEPT !.expected = {"ResourcePackClientResponse"}]]
                 ELSE [err |-> "nil", st |-> st2]

OnResourcePackChunkRequest(uuid, index, ioErr) ==
    /\ SrvDispatches("ResourcePackChunkRequest")
    /\ LET res == ChunkRequestResult(uuid, index, ioErr)
       IN  /\ toServe' = res.st.toServe
           /\ currentPack' = res.st.currentPack
           /\ currentOffset' = res.st.currentOffset
           /\ srvExpected' = res.st.expected
           /\ srvSent' = res.st.sent
    /\ UNCHANGED <<srvPacks, loggedIn, srvClosed, decVars, clientVars, resourceVars>>

\* ---------------------------------------------- the transfer's behaviours
DecodeIdle ==
    /\ data = <<>>
    /\ pool = {1}
    /\ proto = "latest"
    /\ dUnknown = FALSE
    /\ dInvalid = FALSE
    /\ dpc = "idle"
    /\ pd = NoPacketData
    /\ ret = NoRet

InitClient == ClientIdle /\ DecodeIdle /\ ServerIdle(<<>>) /\ ResourceIdle

NextClient ==
    \/ \E cat \in Catalogs : \E decide \in [1..Len(cat) -> BOOLEAN] :
          OnResourcePacksInfo(cat, decide)
    \/ \E tok \in WireIDs : \E info \in DataInfos(tok) :
          OnResourcePackDataInfo(tok, info[1], info[2])
    \/ \E tok \in WireIDs, index \in 0..MaxSize, n \in 0..MaxChunkSize :
          OnResourcePackChunkData(tok, index, n)
    \/ \E stack \in Stacks : OnResourcePackStack(stack)
    \/ \E id \in PackIDs : WorkerRequest(id)
    \/ \E id \in PackIDs : WorkerReceive(id)
    \/ \E id \in PackIDs : WorkerCancelled(id)
    \/ \E id \in PackIDs : WorkerWrite(id)
    \/ \E id \in PackIDs : WorkerLock(id)
    \/ \E id \in PackIDs : WorkerComplete(id)
    \/ Cancel

SpecClient == InitClient /\ [][NextClient]_vars

\* The Go scheduler runs every goroutine that can take a step: each step of
\* each worker is weakly fair. Nothing is assumed of the messages that arrive.
WorkerFairness ==
    \A id \in PackIDs :
        /\ WF_vars(WorkerRequest(id))
        /\ WF_vars(WorkerReceive(id))
        /\ WF_vars(WorkerCancelled(id))
        /\ WF_vars(WorkerWrite(id))
        /\ WF_vars(WorkerLock(id))
        /\ WF_vars(WorkerComplete(id))

SpecClientFair == SpecClient /\ WorkerFairness

\* One transfer with the sizes of a real pack: the catalog lists the single
\* pack P1 of 300000 bytes, and its data-info declares chunks of 128 KiB.
P1 == [UUID |-> "a", Version |-> "1.0.0", Size |-> 300000]
P1DataInfo == <<U64(P1.Size), packChunkSize>>
\* The lengths of the fragments the peer sends: a whole chunk, what is left of
\* P1 after its whole chunks, and lengths that are neither.
P1FragmentLens == {0, 1, packChunkSize, P1.Size % packChunkSize}

NextScenario ==
    \/ OnResourcePacksInfo(<<P1>>, [k \in {1} |-> TRUE])
    \/ \E tok \in WireIDs : OnResourcePackDataInfo(tok, P1DataInfo[1], P1DataInfo[2])
    \/ \E tok \in WireIDs, index \in 0..(MaxSize + 1), n \in P1FragmentLens :
          OnResourcePackChunkData(tok, index, n)
    \/ \E stack \in Stacks : OnResourcePackStack(stack)
    \/ \E id \in PackIDs : WorkerRequest(id)
    \/ \E id \in PackIDs : WorkerReceive(id)
    \/ \E id \in PackIDs : WorkerCancelled(id)
    \/ \E id \in PackIDs : WorkerWrite(id)
    \/ \E id \in PackIDs : WorkerLock(id)
    \/ \E id \in PackIDs : WorkerComplete(id)
    \/ Cancel

SpecScenario == InitClient /\ [][NextScenario]_vars

\* The server role: a listener with some packs, and a peer that sends
\* responses and chunk-requests.
InitServer ==
    ClientIdle /\ DecodeIdle /\ ResourceIdle /\ \E store \in Stores : ServerIdle(store)

Responses == {"Refused", "SendPacks", "AllPacksDownloaded", "Completed", "Other"}

\* The peer asks for packs once and reports the end of its downloads once.
PeerSends(resp) ==
    /\ resp = "SendPacks" =>
          \A k \in 1..Len(srvSent) : srvSent[k].typ # "ResourcePackDataInfo"
    /\ resp = "AllPacksDownloaded" =>
          \A k \in 1..Len(srvSent) : srvSent[k].typ # "ResourcePackStack"

NextServer ==
    \/ \E resp \in Responses, list \in RequestLists :
          PeerSends(resp) /\ OnResourcePackClientResponse(resp, list)
    \/ \E uuid \in RequestIDs, index \in 0..(MaxPackChunks + 1), ioErr \in BOOLEAN :
          OnResourcePackChunkRequest(uuid, index, ioErr)

SpecServer == InitServer /\ [][NextServer]_vars

\* ================================================ package resource: WriteTo
\* The lengths of the archives WriteTo is run on: around each whole number of
\* blocks.
WriteLens == {k * blockSize + r : k \in 0..MaxBlocks, r \in {0, 1, blockSize - 1}}

\* (*os.File).ReadAt(b, off) on a file of len bytes, for len(b) = size: the
\* error is nil exactly when b was filled, and io.EOF when the file ended
\* before that; "io" when the read failed.
FileReadAt(len, size, off, ioErr) ==
    IF ioErr THEN [n |-> 0, err |-> "io"]
    ELSE IF off >= len THEN [n |-> 0, err |-> "EOF"]
    ELSE IF len - off < size THEN [n |-> len - off, err |-> "EOF"]
    ELSE [n |-> size, err |-> "nil"]

\* ReadAt of an io.ReaderAt in general: as a file's, but a read that fills b
\* up to the very end of the data may report io.EOF with it (eofAtEnd) or nil.
ReaderReadAt(len, size, off, ioErr, eofAtEnd) ==
    LET rd == FileReadAt(len, size, off, ioErr)
    IN  IF rd.err = "nil" /\ off + size = len /\ eofAtEnd
        THEN [rd EXCEPT !.err = "EOF"]
        ELSE rd

WriteToNow == [off |-> wOff, out |-> wOut, ret |-> wRet]

\* One turn of the loop of Pack.WriteTo (pack.go): read a block at off, add
\* what was read to off; on io.EOF break and return off, nil; on another error
\* return it; otherwise write the block and go round again. wFail: w.Write
\* returns an error.
PackWriteToLoop(ioErr, wFail) ==
    LET rd  == FileReadAt(wLen, blockSize, wOff, ioErr)
        off == wOff + rd.n
        st  == [WriteToNow EXCEPT !.off = off]
    IN  IF rd.err = "EOF" THEN [st EXCEPT !.ret = [done |-> TRUE, n |-> off, err |-> "nil"]]
        ELSE IF rd.err # "nil"
        THEN [st EXCEPT !.ret = [done |-> TRUE, n |-> off, err |-> rd.err]]
        ELSE IF wFail THEN [st EXCEPT !.ret = [done |-> TRUE, n |-> off, err |-> "write"]]
        ELSE [st EXCEPT !.out = Append(@, [off |-> wOff, n |-> rd.n])]

\* One turn of the loop of pack.WriteTo (the pack compiled from a reader):
\* read a block, add what was read to off, write it when it is not empty,
\* which overwrites err with the error of the Write, and then look at err.
CompiledWriteToLoop(ioErr, wFail, eofAtEnd) ==
    LET rd  == ReaderReadAt(wLen, blockSize, wOff, ioErr, eofAtEnd)
        off == wOff + rd.n
        st  == [WriteToNow EXCEPT !.off = off]
        wr  == [st EXCEPT !.out = Append(@, [off |-> wOff, n |-> rd.n])]
        err == IF rd.n > 0 THEN "nil" ELSE rd.err
    IN  IF rd.n > 0 /\ wFail
        THEN [st EXCEPT !.ret = [done |-> TRUE, n |-> off, err |-> "write"]]
        ELSE LET nx == IF rd.n > 0 THEN wr ELSE st
             IN  IF err = "EOF" THEN [nx EXCEPT !.ret = [done |-> TRUE, n |-> off, err |-> "nil"]]
                 ELSE IF err # "nil"
                 THEN [nx EXCEPT !.ret = [done |-> TRUE, n |-> off, err |-> err]]
                 ELSE nx

\* Pack.WriteTo(w), turn by turn.
PackWriteTo(ioErr, wFail) ==
    /\ wImpl = "Pack"
    /\ ~wRet.done
    /\ LET res == PackWriteToLoop(ioErr, wFail)
       IN  /\ wOff' = res.off
           /\ wOut' = res.out
           /\ wRet' = res.ret
    /\ UNCHANGED <<wImpl, wLen, vIn, vOut, decVars, clientVars, serverVars>>

\* pack.WriteTo(w), turn by turn.
CompiledWriteTo(ioErr, wFail, eofAtEnd) ==
    /\ wImpl = "pack"
    /\ ~wRet.done
    /\ LET res == CompiledWriteToLoop(ioErr, wFail, eofAtEnd)
       IN  /\ wOff' = res.off
           /\ wOut' = res.out
           /\ wRet' = res.ret
    /\ UNCHANGED <<wImpl, wLen, vIn, vOut, decVars, clientVars, serverVars>>

InitWriteTo ==
    /\ ClientIdle /\ DecodeIdle /\ ServerIdle(<<>>)
    /\ wImpl \in {"Pack", "pack"}
    /\ wLen \in WriteLens
    /\ wOff = 0
    /\ wOut = <<>>
    /\ wRet = NoWriteToRet
    /\ vIn = [kind |-> "null", str |-> <<>>, num |-> 0, elems |-> <<>>]
    /\ vOut = NoVersionOut

NextWriteTo ==
    \/ \E ioErr, wFail \in BOOLEAN : PackWriteTo(ioErr, wFail)
    \/ \E ioErr, wFail, eofAtEnd \in BOOLEAN : CompiledWriteTo(ioErr, wFail, eofAtEnd)

SpecWriteTo == InitWriteTo /\ [][NextWriteTo]_vars

\* ================================== package resource: Version.UnmarshalJSON
\* Strings are sequences of one-character strings.
Digits == <<"0", "1", "2", "3", "4", "5", "6", "7", "8", "9">>
DigitOf(ch) == (CHOOSE d \in 1..10 : Digits[d] = ch) - 1
IsDigit(ch) == \E d \in 1..10 : Digits[d] = ch

\* fmt's %d of an int that is not negative.
RECURSIVE Itoa(_)
Itoa(n) == IF n < 10 THEN <<Digits[n + 1]>> ELSE Itoa(n \div 10) \o <<Digits[(n % 10) + 1]>>

\* strconv.Atoi: an optional sign and then digits, at least one; anything
\* else is a syntax error, with the value 0.
RECURSIVE AtoiDigits(_, _)
AtoiDigits(str, acc) ==
    IF str = <<>> THEN acc ELSE AtoiDigits(Tail(str), acc * 10 + DigitOf(Head(str)))
Atoi(str) ==
    LET signed == str # <<>> /\ Head(str) \in {"+", "-"}
        body   == IF signed THEN Tail(str) ELSE str
    IN  IF body = <<>> \/ \E k \in 1..Len(body) : ~IsDigit(body[k])
        THEN [val |-> 0, err |-> "syntax"]
        ELSE [val |-> IF signed /\ Head(str) = "-" THEN 0 - AtoiDigits(body, 0)
                      ELSE AtoiDigits(body, 0),
              err |-> "nil"]

\* strings.SplitN(str, sep, n) for a one-character sep and n > 0: at most n
\* pieces, the last one the unsplit rest.
RECURSIVE SplitN(_, _, _)
SplitN(str, sep, n) ==
    LET at == {k \in 1..Len(str) : str[k] = sep}
    IN  IF n = 1 \/ at = {} THEN <<str>>
        ELSE LET k == CHOOSE x \in at : \A y \in at : x <= y
             IN  <<SubSeq(str, 1, k - 1)>> \o SplitN(SubSeq(str, k + 1, Len(str)), sep, n - 1)

\* What json.Unmarshal(b, &val) leaves in val, an any: a string, a float64, a
\* bool, nil, or a []any of such.
JElem(kind, str, num) == [kind |-> kind, str |-> str, num |-> num]
JString(str) == [kind |-> "string", str |-> str, num |-> 0, elems |-> <<>>]
JArray(elems) == [kind |-> "array", str |-> <<>>, num |-> 0, elems |-> elems]
JNull == [kind |-> "null", str |-> <<>>, num |-> 0, elems |-> <<>>]

\* Version.String(): "%d.%d.%d".
VersionString(v) == Itoa(v[1]) \o <<".">> \o Itoa(v[2]) \o <<".">> \o Itoa(v[3])

\* The three encodings of a version: the dotted string, an array of three
\* numeric strings, an array of three numbers.
AsDotted(v) == JString(VersionString(v))
AsStrings(v) == JArray([i \in 1..3 |-> JElem("string", Itoa(v[i]), 0)])
AsNumbers(v) == JArray([i \in 1..3 |-> JElem("number", <<>>, v[i])])

\* The components of the versions encoded: one digit, and two digits.
VersionParts == (0..MaxVer) \cup {10 + MaxVer}
Versions3 == VersionParts \X VersionParts \X VersionParts

\* Values that are no encoding of a version.
OtherValues ==
    {JNull, JString(<<"1", ".", "0">>), JString(<<"1", ".", "x", ".", "0">>),
     JString(<<"1", ".", "2", ".", "0", "-", "b">>),
     JArray(<<JElem("string", <<"x">>, 0)>>),
     JArray(<<JElem("number", <<>>, 1), JElem("bool", <<>>, 0), JElem("string", <<"2">>, 0)>>)}

\* A mutant of UnmarshalJSON: the dotted string is split in two.
UnmarshalJSONSplitsInTwo(v, val) ==
    LET sp == SplitN(SplitN(val.str, "-", 2)[1], ".", 2)
    IN  IF val.kind = "string" /\ Len(sp) = 3
        THEN [v |-> <<Atoi(sp[1]).val, Atoi(sp[2]).val, Atoi(sp[3]).val>>, err |-> "nil"]
        ELSE [v |-> v, err |-> "nil"]

\* The loop of UnmarshalJSON over val[:min(len(val), 3)], from element i on:
\* a float64 is converted, a string goes through strconv.Atoi, whose error
\* is returned, and anything else is passed over.
RECURSIVE UnmarshalArray(_, _, _)
UnmarshalArray(v, elems, i) ==
    IF i > Len(elems) \/ i > 3 THEN [v |-> v, err |-> "nil"]
    ELSE LET vv == elems[i]
         IN  IF vv.kind = "number"
             THEN UnmarshalArray([v EXCEPT ![i] = vv.num], elems, i + 1)
             ELSE IF vv.kind = "string"
             THEN LET r == Atoi(vv.str)
                  IN  IF r.err # "nil" THEN [v |-> [v EXCEPT ![i] = r.val], err |-> r.err]
                      ELSE UnmarshalArray([v EXCEPT ![i] = r.val], elems, i + 1)
             ELSE UnmarshalArray(v, elems, i + 1)

\* The string case of UnmarshalJSON: what precedes the first "-" is split at
\* its dots in three; with three pieces each goes through strconv.Atoi.
UnmarshalDotted(v, str) ==
    LET sp == SplitN(SplitN(str, "-", 2)[1], ".", 3)
    IN  IF Len(sp) # 3 THEN [v |-> v, err |-> "nil"]
        ELSE LET a == Atoi(sp[1])
                 b == Atoi(sp[2])
                 c == Atoi(sp[3])
             IN  IF a.err # "nil" THEN [v |-> [v EXCEPT ![1] = a.val], err |-> a.err]
                 ELSE IF b.err # "nil"
                 THEN [v |-> [v EXCEPT ![1] = a.val, ![2] = b.val], err |-> b.err]
                 ELSE [v |-> <<a.val, b.val, c.val>>, err |-> c.err]

\* (*Version).UnmarshalJSON on the receiver v, for the value val that
\* json.Unmarshal made of b.
UnmarshalJSON(v, val) ==
    IF val.kind = "array" THEN UnmarshalArray(v, val.elems, 1)
    ELSE IF val.kind = "string" THEN UnmarshalDotted(v, val.str)
    ELSE [v |-> v, err |-> "nil"]

DoUnmarshalJSON ==
    /\ ~vOut.done
    /\ LET res == UnmarshalJSON(vOut.v, vIn)
       IN  vOut' = [done |-> TRUE, v |-> res.v, err |-> res.err]
    /\ UNCHANGED <<vIn, wImpl, wLen, wOff, wOut, wRet, decVars, clientVars, serverVars>>

InitVersion ==
    /\ ClientIdle /\ DecodeIdle /\ ServerIdle(<<>>)
    /\ wImpl = "none" /\ wLen = 0 /\ wOff = 0 /\ wOut = <<>> /\ wRet = NoWriteToRet
    /\ vIn \in OtherValues
            \cup UNION {{AsDotted(v), AsStrings(v), AsNumbers(v)} : v \in Versions3}
    /\ vOut = NoVersionOut

NextVersion == DoUnmarshalJSON

SpecVersion == InitVersion /\ [][NextVersion]_vars

\* -------------------------------------------------- the transfer's claims
\* The chunk-requests handed to WritePacket for pack id, oldest first.
RequestsOf(id) ==
    LET IsRequest(p) == p.typ = "ResourcePackChunkRequest" /\ SplitFirst(p.uuid) = id
    IN  SelectSeq(sent, IsRequest)

\* The worker of pack id went through its whole request loop: it was not
\* cancelled in a select.
LeftLoop(id) ==
    /\ worker[id].pc \in {"locked", "exited"}
    /\ worker[id].outcome # "cancelled"

\* n = ceil(size / c), for c > 0 and an n below 2^15.
IsCeil(n, size, c) ==
    /\ FitsInt(size)
    /\ IntOf(size) <= n * c
    /\ n = 0 \/ IntOf(size) > (n - 1) * c

\* C8: a worker that got every fragment it asked for and was not cancelled has
\* sent exactly ceil(S / C) chunk-requests for its pack, of size S in chunks of
\* C > 0: the indices 0, 1, ..., N-1 in this order, each once.
C8_ExactlyCeilRequests ==
    \A id \in PackIDs :
        (LeftLoop(id) /\ packs[id].chunkSize > 0) =>
            LET reqs == RequestsOf(id)
            IN  /\ IsCeil(Len(reqs), packs[id].size, packs[id].chunkSize)
                /\ \A k \in 1..Len(reqs) : reqs[k].idx = k - 1

\* C9: the chunk-request for index i+1 of a pack is sent only after the
\* fragment for index i is in the pack's buffer, so that the requests of a pack
\* are at most one ahead of its buffer, and never behind it.
C9_RequestAfterAppend ==
    \A id \in PackIDs :
        LET reqs == RequestsOf(id)
            buf  == packs[id].buf
        IN  /\ Len(buf) <= Len(reqs)
            /\ Len(reqs) <= Len(buf) + 1
            /\ \A k \in 1..Len(reqs) : reqs[k].idx = k - 1
            /\ \A j \in 1..Len(buf) : buf[j].idx = j - 1

\* Both packs have a request outstanding: "a" its second, after its first
\* fragment was appended, and "b" its first.
C9_Witness ==
    /\ Len(RequestsOf("a")) = 2 /\ Len(packs["a"].buf) = 1
    /\ Len(RequestsOf("b")) = 1 /\ Len(packs["b"].buf) = 0

\* The "all packs downloaded" responses handed to WritePacket.
AllPacksDownloadedSent ==
    LET IsDone(p) == p.typ = "ResourcePackClientResponse" /\ p.resp = "AllPacksDownloaded"
    IN  Len(SelectSeq(sent, IsDone))

\* The worker of pack id parsed the pack and counted it off.
PackResolved(id) == worker[id].pc = "exited" /\ worker[id].outcome = "resolved"

\* C10: with at least one pack queued, packAmount counts the queued packs not
\* yet parsed; it is zero exactly when every queued pack is parsed, and exactly
\* then the one "all packs downloaded" response has been sent and the
\* connection expects the pack stack (until the stack is handled, and then the
\* start of the game): never earlier, never twice.
C10_AllDownloadedOnce ==
    queued # <<>> =>
        /\ packAmount = Cardinality({k \in 1..Len(queued) : ~PackResolved(queued[k])})
        /\ (packAmount = 0) <=> (AllPacksDownloadedSent = 1)
        /\ (packAmount # 0) <=> (AllPacksDownloadedSent = 0)
        /\ (packAmount = 0) <=> (expected \in {{"ResourcePackStack"}, {"StartGame"}})
        /\ (packAmount = 0 /\ sent[Len(sent)].resp = "AllPacksDownloaded") =>
              expected = {"ResourcePackStack"}
        /\ (packAmount # 0) <=> (expected = {"ResourcePackDataInfo", "ResourcePackChunkData"})

\* Two packs were queued and both are parsed: the response went out once.
C10_Witness ==
    /\ Len(queued) = 2
    /\ \A k \in 1..Len(queued) : PackResolved(queued[k])
    /\ packAmount = 0
    /\ AllPacksDownloadedSent = 1
    /\ expected = {"ResourcePackStack"}

\* The resource.Read calls on pack id's buffer that returned a pack.
OkReads(id) ==
    LET IsOk(b) == b
    IN  Len(SelectSeq(reads[id], IsOk))

RECURSIVE SumOver(_, _)
SumOver(f, S) ==
    IF S = {} THEN 0
    ELSE LET x == CHOOSE y \in S : TRUE
         IN  f[x] + SumOver(f, S \ {x})

\* The buffer of pack id holds as many bytes as its data-info declared.
BytesComplete(id) == ~IntNE(SumLen(packs[id].buf), packs[id].size)

\* The worker of pack id ran to its end, not cancelled on the way.
Finished(id) == worker[id].pc = "exited" /\ worker[id].outcome # "cancelled"

WillReceive(id) ==
    \/ worker[id].pc = "select"
    \/ worker[id].pc = "loop" /\ worker[id].i < worker[id].chunkCount
    \/ worker[id].pc = "write" /\ worker[id].i + 1 < worker[id].chunkCount

\* C13: OnResourcePackChunkData does not wait on the state of a transfer:
\* whenever it is in its send on a pack's newFrag channel, that pack's worker
\* has a receive ahead of it, whether the worker waits, is busy, has finished
\* its chunks or has exited.
C13_SendFindsReceiver ==
    rx.pc = "sending" => WillReceive(rx.id)

\* No worker is running: each was never launched or has returned.
NoWorkerRunning == \A id \in PackIDs : worker[id].pc \in {"none", "exited"}

\* C14: once the connection's context is cancelled, every worker that is
\* running eventually returns, whether or not another fragment arrives.
C14_WorkersExitAfterCancel == ctxDone ~> NoWorkerRunning

\* The context was cancelled while both workers waited for a fragment, and
\* both have returned through the select's ctx.Done() case.
C14_Witness ==
    /\ ctxDone
    /\ worker["a"].pc = "exited" /\ worker["a"].outcome = "cancelled"
    /\ worker["b"].pc = "exited" /\ worker["b"].outcome = "cancelled"

\* C15: once the connection's context is cancelled no worker hands another
\* packet to WritePacket, neither a chunk-request nor the "all packs
\* downloaded" response, and a worker that returns because of the
\* cancellation does not hold r.packMu.
C15_SilentAfterCancel ==
    [][ctxDone =>
          /\ sent' = sent
          /\ \A id \in PackIDs :
                (worker[id].outcome # "cancelled" /\ worker'[id].outcome = "cancelled") =>
                    packMu' # id]_vars

\* Catalogs to run the loop of OnResourcePacksInfo on: up to one entry more
\* than there are pack ids, in two versions.
LoopCatalogs ==
    SeqsUpTo([UUID : PackIDs, Version : Versions \cup {"2.0.0"}, Size : CatalogSizes],
             Cardinality(PackIDs) + 1)

\* Entry k of the catalog is the one that queues its pack: the download
\* decision accepts it, and it rejected every earlier entry of the same id.
Queues(cat, decide, k) ==
    /\ decide[k]
    /\ \A j \in 1..(k - 1) : cat[j].UUID = cat[k].UUID => ~decide[j]

\* The tokens uuid + "_" + version of the entries that queue a pack, in
\* catalog order.
RECURSIVE QueuedTokens(_, _, _)
QueuedTokens(cat, decide, k) ==
    IF k = 0 THEN <<>>
    ELSE IF Queues(cat, decide, k)
    THEN Append(QueuedTokens(cat, decide, k - 1), <<cat[k].UUID, cat[k].Version>>)
    ELSE QueuedTokens(cat, decide, k - 1)

\* The responses of one kind handed to WritePacket.
ResponsesSent(resp) ==
    LET Is(p) == p.typ = "ResourcePackClientResponse" /\ p.resp = resp
    IN  Len(SelectSeq(sent, Is))

\* C16: the catalog is answered by one response, the first packet the client
\* sends. With a pack queued it is "send packs" with the token
\* uuid + "_" + version of each queued pack in catalog order; with none queued
\* it is "all packs downloaded", and then no data-info or chunk-data is
\* expected and no chunk-request is ever sent.
C16_CatalogReply ==
    /\ ~hasQueue =>
          /\ sent = <<>>
          /\ \A cat \in LoopCatalogs : \A decide \in [1..Len(cat) -> BOOLEAN] :
                PacksInfoQueue(cat, decide).toDownload = QueuedTokens(cat, decide, Len(cat))
    /\ (hasQueue /\ queued # <<>>) =>
          /\ sent[1] = ClientResponse("SendPacks",
                                      [k \in 1..Len(queued) |-> Token(queued[k], "1.0.0")])
          /\ ResponsesSent("SendPacks") = 1
          /\ \A k \in 2..Len(sent) : sent[k].resp # "SendPacks"
    /\ (hasQueue /\ queued = <<>>) =>
          /\ sent[1] = ClientResponse("AllPacksDownloaded", <<>>)
          /\ ResponsesSent("AllPacksDownloaded") = 1
          /\ ResponsesSent("SendPacks") = 0
          /\ \A k \in 1..Len(sent) : sent[k].typ # "ResourcePackChunkRequest"
          /\ expected \cap {"ResourcePackDataInfo", "ResourcePackChunkData"} = {}
          /\ NoWorkerRunning /\ awaiting = {}

\* The catalog listed "b" before "a" and both were queued: the response names
\* them in that order.
C16_Witness ==
    /\ hasQueue
    /\ queued = <<"b", "a">>
    /\ sent[1].resp = "SendPacks"
    /\ sent[1].list = <<Token("b", "1.0.0"), Token("a", "1.0.0")>>

\* Entry e of a stack names a pack the client has in some form: an exempted
\* pack, a pack the download decision rejected, or a downloaded pack of this
\* id and version.
Known(e) ==
    \/ \E x \in ExemptedPacks : x.uuid = e.UUID /\ x.version = e.Version
    \/ \E k \in 1..Len(ignoredResourcePacks) :
          ignoredResourcePacks[k].uuid = e.UUID /\ ignoredResourcePacks[k].version = e.Version
    \/ \E k \in 1..Len(resourcePacks) :
          resourcePacks[k].uuid = e.UUID /\ resourcePacks[k].version = e.Version

\* C17: a stack with an entry that names no exempted, no rejected and no
\* downloaded pack makes OnResourcePackStack return an error: no "completed"
\* response is sent and the connection does not go on to the start of the game.
C17_MissingPackFails ==
    Dispatches("ResourcePackStack") =>
        \A stack \in Stacks :
            (\E k \in 1..Len(stack) : ~Known(stack[k])) =>
                LET res == StackResult(stack)
                IN  /\ res.err = "not downloaded"
                    /\ res.sent = sent
                    /\ res.expected = expected

\* Entry e of a stack matches a downloaded pack by id and version, or is an
\* exempted pack.
MatchesResolved(e) ==
    \/ \E x \in ExemptedPacks : x.uuid = e.UUID /\ x.version = e.Version
    \/ \E k \in 1..Len(resourcePacks) :
          resourcePacks[k].uuid = e.UUID /\ resourcePacks[k].version = e.Version

MatchesTexturePack(e) ==
    \/ \E x \in ExemptedPacks : x.uuid = e.UUID /\ x.version = e.Version
    \/ \E k \in 1..Len(resourcePacks) :
          /\ resourcePacks[k].uuid = e.UUID /\ resourcePacks[k].version = e.Version
          /\ ~resourcePacks[k].hasBehaviours

C19_OnlyExpectedChunkServed ==
    SrvDispatches("ResourcePackChunkRequest") =>
        \A uuid \in RequestIDs, index \in 0..(MaxPackChunks + 1), ioErr \in BOOLEAN :
            LET res     == ChunkRequestResult(uuid, index, ioErr)
                matches == /\ uuid = srvPacks[currentPack].uuid
                           /\ index * packChunkSize = currentOffset
            IN  /\ res.st.sent # srvSent => matches
                /\ ~matches => (res.err # "nil" /\ res.st = SrvNow)
                /\ (matches /\ ~ioErr) =>
                      /\ res.err = "nil"
                      /\ Len(res.st.sent) > Len(srvSent)
                      /\ res.st.sent[Len(srvSent) + 1].typ = "ResourcePackChunkData"
                      /\ res.st.sent[Len(srvSent) + 1].idx = index

\* The first chunk of the first of two packs was served and the second is
\* due: index 0 again, index 2, and the other pack's id are all requests to
\* reject.
C19_Witness ==
    /\ SrvDispatches("ResourcePackChunkRequest")
    /\ currentOffset = packChunkSize
    /\ toServe # {}
    /\ srvSent[Len(srvSent)].typ = "ResourcePackChunkData"
    /\ ChunkRequestResult(srvPacks[currentPack].uuid, 0, FALSE).err = "unexpected chunk index"

\* The length of the listener's pack with this uuid.
LenOf(uuid) == (CHOOSE pk \in {srvPacks[i] : i \in 1..Len(srvPacks)} : pk.uuid = uuid).len

\* C20: the chunk-data that answers the last request a client makes for a
\* pack of length L > 0, the one with index ceil(L / packChunkSize) - 1, is the
\* pack's final chunk for the server too: it is followed at once by the next
\* pack's data-info or, with no pack left, by the server expecting the
\* client's response (which the pack stack answers).
C20_LastRequestAdvances ==
    \A k \in 1..Len(srvSent) :
        (/\ srvSent[k].typ = "ResourcePackChunkData"
         /\ srvSent[k].idx = DataChunkCount(LenOf(srvSent[k].uuid), packChunkSize) - 1) =>
            \/ /\ k < Len(srvSent)
               /\ srvSent[k + 1].typ \in {"ResourcePackDataInfo", "ResourcePackStack"}
            \/ /\ k = Len(srvSent)
               /\ srvExpected = {"ResourcePackClientResponse"}

\* The uuid of the pack being served when srvSent[k] was sent: that of the
\* latest data-info before k ("" when there is none).
ServingAt(k) ==
    LET infos == {j \in 1..(k - 1) : srvSent[j].typ = "ResourcePackDataInfo"}
    IN  IF infos = {} THEN ""
        ELSE srvSent[CHOOSE j \in infos : \A i \in infos : i <= j].uuid

\* The packets of srvSent in order: each pack is announced once, a chunk-data
\* belongs to the pack announced last, the packet just before a later pack's
\* data-info is the earlier pack's chunk that was read to the end of the
\* stream, and a chunk-data carries the offset index * packChunkSize.
OnePackAtATime ==
    \A k \in 1..Len(srvSent) :
        /\ srvSent[k].typ = "ResourcePackChunkData" =>
              /\ srvSent[k].uuid = ServingAt(k)
              /\ srvSent[k].offset = srvSent[k].idx * packChunkSize
        /\ srvSent[k].typ = "ResourcePackDataInfo" =>
              /\ \A j \in 1..(k - 1) :
                    srvSent[j].typ = "ResourcePackDataInfo" => srvSent[j].uuid # srvSent[k].uuid
              /\ ServingAt(k) # "" =>
                    /\ srvSent[k - 1].typ = "ResourcePackChunkData"
                    /\ srvSent[k - 1].uuid = ServingAt(k)
                    /\ srvSent[k - 1].len < packChunkSize

\* A step in which a chunk-request was accepted: its chunk-data was sent.
ChunkServed ==
    /\ Len(srvSent') > Len(srvSent)
    /\ srvSent'[Len(srvSent) + 1].typ = "ResourcePackChunkData"

\* An accepted request serves the tracked offset and moves it on by one chunk
\* size within the pack; when the request ended the pack and another pack is
\* due, that pack's data-info follows and the offset starts again at 0.
OffsetAdvances ==
    ChunkServed =>
        /\ srvSent'[Len(srvSent) + 1].offset = currentOffset
        /\ IF Len(srvSent') = Len(srvSent) + 1
           THEN currentPack' = currentPack /\ currentOffset' = currentOffset + packChunkSize
           ELSE /\ Len(srvSent') = Len(srvSent) + 2
                /\ srvSent'[Len(srvSent) + 2].typ = "ResourcePackDataInfo"
                /\ currentPack' # currentPack
                /\ currentOffset' = 0

\* C21: the server serves its packs strictly one at a time: every chunk-data
\* of a pack, its final chunk included, is sent before the data-info of the
\* next pack; each accepted request moves the tracked offset on by exactly
\* one chunk size; and the offset a chunk-data carries is its chunk index
\* times the chunk size.
C21_OnePackAtATime == []OnePackAtATime /\ [][OffsetAdvances]_vars

\* C21: two packs were served one after the other, the first in more than
\* one chunk.
C21_Witness ==
    \E i, j, k \in 1..Len(srvSent) :
        /\ i < j /\ j < k
        /\ srvSent[i].typ = "ResourcePackChunkData" /\ srvSent[i].idx = 1
        /\ srvSent[j].typ = "ResourcePackDataInfo"
        /\ srvSent[k].typ = "ResourcePackChunkData" /\ srvSent[k].uuid = srvSent[j].uuid

\* The worker of pack id has sent every chunk-request of its pack.
AllRequested(id) ==
    /\ worker[id].pc # "none"
    /\ Len(RequestsOf(id)) = worker[id].chunkCount

\* C22: when pack A was queued before pack B, the chunk-request for chunk 0 of
\* B is not sent before every chunk-request of A has been sent.
C22_QueuedOrderRequests ==
    \A x, y \in 1..Len(queued) :
        (x < y /\ RequestsOf(queued[y]) # <<>>) => AllRequested(queued[x])

\* The transfer of pack id was abandoned in the completion step: its buffer
\* had not the declared length, or did not parse.
Abandoned(id) == worker[id].pc = "exited" /\ worker[id].outcome \in {"size", "parse"}

\* C23: once the transfer of a queued pack was abandoned, the outstanding
\* counter is never zero and "all packs downloaded" is never sent for the
\* catalog: neither before the pack was abandoned nor afterwards.
C23_CorruptPackStalls ==
    (\E id \in PackIDs : Abandoned(id)) => (packAmount > 0 /\ AllPacksDownloadedSent = 0)

\* C23: of two queued packs one was abandoned and the other one resolved.
C23_Witness ==
    /\ Len(queued) = 2
    /\ \E id, other \in PackIDs :
          /\ Abandoned(id)
          /\ PackResolved(other)

\* The step in which the worker of pack id, holding the mutex after its loop,
\* finds a buffer whose length is not the declared size, and returns.
SizeMismatchExit(id) ==
    /\ worker[id].pc = "locked"
    /\ worker'[id].pc # "locked"
    /\ IntNE(SumLen(packs[id].buf), packs[id].size)

\* C24: a worker whose loop ended with a buffer length other than the declared
\* size abandons the pack and no more: the connection stays open and nothing
\* faults, the buffer is not parsed, the resolved packs and the outstanding
\* counter are as before, no packet is sent, and the mutex is released.
C24_SizeMismatchAbandons ==
    [][\A id \in PackIDs :
          SizeMismatchExit(id) =>
              /\ worker'[id].pc = "exited"
              /\ ctxDone' = ctxDone /\ crashed' = crashed
              /\ reads' = reads
              /\ resourcePacks' = resourcePacks
              /\ packAmount' = packAmount
              /\ sent' = sent /\ expected' = expected
              /\ packMu = id /\ packMu' = "free"]_vars

\* C24: a worker that received a fragment has returned on a buffer shorter
\* than the declared size, and the mutex is free.
C24_Witness ==
    \E id \in PackIDs :
        /\ worker[id].pc = "exited" /\ worker[id].outcome = "size"
        /\ packs[id].buf # <<>>
        /\ IntNE(SumLen(packs[id].buf), packs[id].size)
        /\ packMu = "free"

\* C25: a data-info for an id in downloadingPacks moves the entry to
\* awaitingPacks, with the size the data-info declares, and launches the
\* pack's one worker; a data-info for any other id returns an error, launches
\* no worker and leaves both maps as they were.
C25_DataInfoMovesPack ==
    Dispatches("ResourcePackDataInfo") =>
        \A tok \in WireIDs : \A info \in DataInfos(tok) :
            LET id  == SplitFirst(tok)
                res == DataInfoResult(tok, info[1], info[2])
            IN  IF id \in DOMAIN downloading
                THEN /\ res.err = "nil"
                     /\ id \notin DOMAIN res.downloading
                     /\ id \in res.awaiting
                     /\ res.packs[id].size = info[1]
                     /\ res.launched
                     /\ res.worker[id].pc = "loop"
                     /\ \A o \in PackIDs \ {id} : res.worker[o] = worker[o]
                ELSE /\ res.err \notin {"nil", "panic"}
                     /\ ~res.launched
                     /\ res.worker = worker
                     /\ res.downloading = downloading
                     /\ res.awaiting = awaiting

\* No element occurs twice in the sequence.
Distinct(seq) == \A i, j \in 1..Len(seq) : seq[i] = seq[j] => i = j

\* Entry k of the catalog repeats the id of a pack that an earlier entry queued.
Repeats(cat, decide, k) ==
    \E j \in 1..(k - 1) : cat[j].UUID = cat[k].UUID /\ Queues(cat, decide, j)

\* C26: a catalog that lists an id more than once is handled like any other.
\* An entry that repeats the id of a queued pack is skipped: it is not queued,
\* not named in "send packs" and not put to the download decision; the pack
\* count, which starts at the number of entries, goes down by one for each
\* such entry (and for each rejected one), and so equals the number of
\* distinct queued packs.
C26_DuplicatesSkipped ==
    /\ ~hasQueue =>
          \A cat \in LoopCatalogs : \A decide \in [1..Len(cat) -> BOOLEAN] :
              LET st  == PacksInfoQueue(cat, decide)
                  dup == {k \in 1..Len(cat) : Repeats(cat, decide, k)}
                  rej == {k \in 1..Len(cat) \ dup : ~decide[k]}
              IN  /\ st.packAmount = Len(cat) - Cardinality(dup) - Cardinality(rej)
                  /\ st.packAmount = Len(st.queued)
                  /\ st.packAmount = Cardinality(DOMAIN st.downloading)
                  /\ Distinct(st.queued)
                  /\ Len(st.toDownload) = Len(st.queued)
                  /\ \A k \in 1..Len(st.queued) : SplitFirst(st.toDownload[k]) = st.queued[k]
                  /\ Len(st.ignored) = Cardinality(rej)
    /\ hasQueue =>
          /\ Distinct(queued)
          /\ \A id \in PackIDs :
                (\E k \in 1..Len(queued) : queued[k] = id) <=>
                    (id \in DOMAIN downloading \/ worker[id].pc # "none"
                        \/ (id \in awaiting /\ crashed))
          /\ sent[1].typ = "ResourcePackClientResponse"
          /\ sent[1].resp = "SendPacks" =>
                /\ Distinct(sent[1].list)
                /\ Len(sent[1].list) = Len(queued)
          /\ packAmount = Cardinality({k \in 1..Len(queued) : ~PackResolved(queued[k])})

\* C26: the catalog listed one id twice; the pack was queued once and named
\* once in "send packs", and the count is 1.
C26_Witness ==
    /\ hasQueue
    /\ Len(catalog) = 2 /\ catalog[1].UUID = catalog[2].UUID
    /\ queued = <<catalog[1].UUID>>
    /\ Len(sent) = 1 /\ sent[1].list = <<Token(catalog[1].UUID, catalog[1].Version)>>
    /\ packAmount = 1
    /\ ignoredResourcePacks = <<>>

\* The queue OnResourcePacksInfo has built when its loop has gone through the
\* first k entries of the catalog, the pack count taken over these k entries.
QueueAfter(cat, decide, k) ==
    PacksInfoLoop(SubSeq(cat, 1, k), decide, 1,
                  [packAmount |-> k, downloading |-> [id \in {} |-> NoPack],
                   toDownload |-> <<>>, ignored |-> <<>>, queued |-> <<>>])

\* C27: a catalog entry that the download decision rejects is not queued and
\* not named in "send packs", is recorded in ignoredResourcePacks, and is not
\* counted as outstanding; unless another entry queues its id, no data-info
\* is accepted and no chunk is requested for it. A stack entry with its id and
\* version matches: hasPack answers true, and a stack of it alone completes.
C27_RejectedEntrySatisfied ==
    /\ ~hasQueue =>
          \A cat \in LoopCatalogs : \A decide \in [1..Len(cat) -> BOOLEAN] :
              \A k \in 1..Len(cat) :
                  (~decide[k] /\ ~Repeats(cat, decide, k)) =>
                      LET before == QueueAfter(cat, decide, k - 1)
                          after  == QueueAfter(cat, decide, k)
                          all    == PacksInfoQueue(cat, decide)
                      IN  /\ after.queued = before.queued
                          /\ after.toDownload = before.toDownload
                          /\ after.downloading = before.downloading
                          /\ after.ignored = Append(before.ignored,
                                                    [uuid |-> cat[k].UUID,
                                                     version |-> cat[k].Version])
                          /\ after.packAmount = Len(after.queued)
                          /\ all.packAmount = Len(all.queued)
                          /\ (\A j \in 1..Len(cat) :
                                 cat[j].UUID = cat[k].UUID => ~decide[j]) =>
                                /\ cat[k].UUID \notin DOMAIN all.downloading
                                /\ \A i \in 1..Len(all.toDownload) :
                                      SplitFirst(all.toDownload[i]) # cat[k].UUID
    /\ \A k \in 1..Len(ignoredResourcePacks) :
          LET e == ignoredResourcePacks[k]
          IN  /\ HasPack(e.uuid, e.version, FALSE)
              /\ StackResult(<<[UUID |-> e.uuid, Version |-> e.version]>>).err = "nil"
              /\ (\A i \in 1..Len(queued) : queued[i] # e.uuid) =>
                    /\ RequestsOf(e.uuid) = <<>>
                    /\ worker[e.uuid].pc = "none"
                    /\ e.uuid \notin DOMAIN downloading \cup awaiting
                    /\ \A tok \in WireIDs : \A info \in DataInfos(tok) :
                          SplitFirst(tok) = e.uuid =>
                              DataInfoResult(tok, info[1], info[2]).err
                                  = "unknown pack to download"

\* C27: of a catalog of two packs the first was rejected and the second was
\* downloaded: the count is 0, nothing was asked of the first, and the stack
\* is awaited.
C27_Witness ==
    /\ Len(catalog) = 2
    /\ ignoredResourcePacks = <<[uuid |-> catalog[1].UUID, version |-> catalog[1].Version]>>
    /\ queued = <<catalog[2].UUID>>
    /\ catalog[1].UUID # catalog[2].UUID
    /\ RequestsOf(catalog[1].UUID) = <<>>
    /\ packAmount = 0
    /\ Dispatches("ResourcePackStack")

\* C28: a chunk-data for an id that is not in awaitingPacks (no catalog
\* announced it, its data-info has not arrived, or its id does not parse)
\* makes OnResourcePackChunkData return an error: no fragment is handed to a
\* worker and no pack changes.
C28_UnawaitedChunkRejected ==
    Dispatches("ResourcePackChunkData") =>
        \A tok \in WireIDs, index \in 0..MaxSize, n \in 0..MaxChunkSize :
            LET id  == SplitFirst(tok)
                res == ChunkDataResult(tok, index, n)
            IN  (~ParsesAsUUID(id) \/ id \notin awaiting) =>
                    /\ res.err \in {"invalid UUID", "not being downloaded"}
                    /\ res.rx = rx /\ rx.pc = "idle"
                    /\ res.packs = packs

\* C28: a chunk-data can arrive while one announced pack has had no data-info
\* and the other one is being downloaded.
C28_Witness ==
    /\ Dispatches("ResourcePackChunkData")
    /\ \E id, other \in PackIDs :
          /\ id \in DOMAIN downloading
          /\ other \in awaiting /\ worker[other].pc = "select"

\* The declared size is more than n bytes.
SizeAbove(size, n) == ~FitsInt(size) \/ IntOf(size) > n

\* C29: a chunk-data whose length is not the pack's chunk size, for a pack
\* whose buffer length plus chunk size is below the declared size (so that the
\* fragment is not the final one), is rejected with an error, and the pack's
\* expected index and buffer stay as they are.
C29_ShortFragmentRejected ==
    Dispatches("ResourcePackChunkData") =>
        \A tok \in WireIDs, index \in 0..MaxSize, n \in 0..MaxChunkSize :
            LET id  == SplitFirst(tok)
                res == ChunkDataResult(tok, index, n)
            IN  (/\ id \in PackIDs /\ id \in awaiting
                 /\ n # packs[id].chunkSize
                 /\ SizeAbove(packs[id].size, SumLen(packs[id].buf) + packs[id].chunkSize)) =>
                    /\ res.err \notin {"nil", "panic"}
                    /\ res.packs = packs
                    /\ res.rx = rx

\* The lengths of the fragments in the buffer of pack id, oldest first.
BufLens(id) == [k \in 1..Len(packs[id].buf) |-> packs[id].buf[k].len]

\* C30: for the catalog of the single pack P1 of 300000 bytes and a data-info
\* with chunks of 131072 bytes, the worker computes 3 chunks and sends the
\* chunk-requests 0, 1, 2 in this order and no other; after two whole chunks a
\* final fragment of 300000 - 2 * 131072 = 37856 bytes is accepted; and when
\* the three fragments are in the buffer and the buffer parses, the pack count
\* is 0 and "all packs downloaded" has been sent once.
C30_EndToEnd ==
    LET reqs == RequestsOf("a")
        last == P1.Size - 2 * packChunkSize
    IN  /\ worker["a"].pc # "none" => worker["a"].chunkCount = 3
        /\ Len(reqs) <= 3
        /\ \A k \in 1..Len(reqs) : reqs[k] = ChunkRequest(Token("a", "1.0.0"), k - 1)
        /\ LeftLoop("a") => Len(reqs) = 3
        /\ last = 37856
        /\ (/\ Dispatches("ResourcePackChunkData")
            /\ worker["a"].pc = "select"
            /\ BufLens("a") = <<packChunkSize, packChunkSize>>) =>
                LET res == ChunkDataResult(Token("a", "1.0.0"), 2, last)
                IN  /\ res.err = "nil"
                    /\ res.rx = [pc |-> "sending", id |-> "a",
                                 frag |-> [idx |-> 2, len |-> last]]
        /\ AllPacksDownloadedSent <= 1
        /\ (/\ worker["a"].pc = "exited"
            /\ BufLens("a") = <<packChunkSize, packChunkSize, last>>
            /\ reads["a"] = <<TRUE>>) =>
                /\ packAmount = 0
                /\ AllPacksDownloadedSent = 1
                /\ Len(reqs) = 3
        /\ AllPacksDownloadedSent = 1 =>
                /\ BufLens("a") = <<packChunkSize, packChunkSize, last>>
                /\ packAmount = 0

\* C30: P1 was delivered in fragments of 131072, 131072 and 37856 bytes and
\* parsed; three requests were sent, the count is 0 and the response is out.
C30_Witness ==
    /\ catalog = <<P1>>
    /\ PackResolved("a")
    /\ BufLens("a") = <<packChunkSize, packChunkSize, 37856>>
    /\ Len(RequestsOf("a")) = 3
    /\ packAmount = 0
    /\ AllPacksDownloadedSent = 1

\* C31: a chunk-request whose ReadAt fails with an error other than io.EOF
\* returns that error; no chunk-data is sent, the server stays with the pack
\* it is serving, and the tracked offset is what it was before the request.
C31_FailedReadKeepsOffset ==
    SrvDispatches("ResourcePackChunkRequest") =>
        \A uuid \in RequestIDs, index \in 0..(MaxPackChunks + 1) :
            LET res == ChunkRequestResult(uuid, index, TRUE)
            IN  /\ res.err # "nil"
                /\ res.st.sent = srvSent
                /\ res.st.currentPack = currentPack
                /\ res.st.toServe = toServe
                /\ res.st.expected = srvExpected
                /\ res.st.currentOffset = currentOffset

\* The Write calls carried the archive's bytes from 0 up to n, in order and
\* without a gap.
RECURSIVE WrittenUpTo(_, _)
WrittenUpTo(out, k) ==
    IF k = 0 THEN 0
    ELSE LET upto == WrittenUpTo(out, k - 1)
         IN  IF upto >= 0 /\ out[k].off = upto /\ out[k].n > 0 THEN upto + out[k].n ELSE -1

\* C32: WriteTo writes the whole archive: when it has returned without an
\* error of the file or of the writer, the bytes written are the archive's
\* bytes in order, the count returned is the number of bytes written and is
\* Len(), and the end of the archive is never returned as an error.
C32_WriteToWritesAll ==
    (wImpl = "Pack" /\ wRet.done) =>
        /\ wRet.err # "EOF"
        /\ wRet.err = "nil" =>
              /\ WrittenUpTo(wOut, Len(wOut)) = wLen
              /\ wRet.n = WrittenUpTo(wOut, Len(wOut))
              /\ wRet.n = wLen

\* C33: for a version a.b.c, UnmarshalJSON takes the dotted string "a.b.c",
\* the array of the three numeric strings and the array of the three numbers
\* without an error, and each of them leaves the triple [a, b, c].
C33_ThreeEncodings ==
    vOut.done =>
        \A v \in Versions3 :
            vIn \in {AsDotted(v), AsStrings(v), AsNumbers(v)} =>
                vOut.err = "nil" /\ vOut.v = v

\* C33: a version with a component of two digits was decoded from its dotted
\* string.
C33_Witness ==
    /\ vOut.done
    /\ vIn.kind = "string"
    /\ \E v \in Versions3 : v[2] >= 10 /\ v[1] # v[3] /\ vIn = AsDotted(v) /\ vOut.v = v

\* C34: a step changes the resolved packs, the rejected packs or the
\* outstanding-pack counter only while the pack mutex is held.
MutatesShared ==
    \/ resourcePacks' # resourcePacks
    \/ ignoredResourcePacks' # ignoredResourcePacks
    \/ packAmount' # packAmount

\* C34: the mutex is held by a worker only in its completion step: not
\* while it waits in the select, and not after it exited.
MutexOnlyInCompletion ==
    \A id \in PackIDs : (packMu = id) <=> (worker[id].pc = "locked")

\* C34: every mutation of the resolved packs, the rejected packs and the
\* outstanding-pack counter, by a worker or a handler, happens while the pack
\* mutex is held; no worker holds the mutex while it waits for a fragment or
\* for cancellation, and every exit of the completion step releases it.
C34_SharedStateUnderMutex ==
    /\ []MutexOnlyInCompletion
    /\ [][MutatesShared => packMu # "free"]_vars

\* C35: the accepted fragments of pack id: what its worker has appended, and
\* the fragment that passed the handler's checks and is not appended yet (in
\* the handler's send, or received by the worker and not written).
InFlight(id) ==
    IF rx.pc = "sending" /\ rx.id = id THEN 1
    ELSE IF worker[id].pc = "write" THEN 1
    ELSE 0

\* C35: the chunk-requests sent for pack id so far.
RequestedIndexes(id) ==
    {sent[k].idx : k \in {j \in 1..Len(sent) : /\ sent[j].typ = "ResourcePackChunkRequest"
                                                 /\ SplitFirst(sent[j].uuid) = id}}

\* C35: in a state, for every pack in awaitingPacks: the expected index is
\* the number of accepted fragments, the buffer holds the fragments 0..k-1 in
\* the order of their indexes, and they were all requested.
ExpectedIndexCounts ==
    \A id \in awaiting :
        LET k == Len(packs[id].buf)
        IN  /\ packs[id].expectedIndex = k + InFlight(id)
            /\ k <= packs[id].expectedIndex /\ packs[id].expectedIndex <= k + 1
            /\ \A j \in 1..k : packs[id].buf[j].idx = j - 1
            /\ \A j \in 1..k : (j - 1) \in RequestedIndexes(id)

\* C35: the expected index changes only by one, in the step in which the
\* handler accepts a fragment, and the buffer only by the worker's append of
\* the fragment whose index is its length.
ExpectedIndexSteps ==
    /\ \A id \in awaiting' \ awaiting :
           packs'[id].expectedIndex = 0 /\ packs'[id].buf = <<>>
    /\ \A id \in awaiting \cap awaiting' :
           /\ packs'[id].expectedIndex # packs[id].expectedIndex =>
                  /\ packs'[id].expectedIndex = packs[id].expectedIndex + 1
                  /\ rx.pc = "idle" /\ rx'.pc = "sending" /\ rx'.id = id
                  /\ rx'.frag.idx = packs[id].expectedIndex
           /\ packs'[id].buf # packs[id].buf =>
                  /\ worker[id].pc = "write"
                  /\ packs'[id].buf = Append(packs[id].buf, worker[id].frag)
                  /\ worker[id].frag.idx \in RequestedIndexes(id)

\* C35: for every pack in awaitingPacks the expected index starts at 0 and
\* goes up by exactly 1 per accepted fragment and never otherwise; the buffer
\* is the accepted fragments 0..k-1 in index order with
\* k <= expectedIndex <= k + 1; and fragment i is appended only after the
\* chunk-request for i was sent.
C35_ExpectedIndex == []ExpectedIndexCounts /\ [][ExpectedIndexSteps]_vars

\* C36: once the worker of a pack has added it to the resolved packs, or has
\* abandoned it (wrong size, or a buffer that does not parse), the pack is in
\* neither downloadingPacks nor awaitingPacks, and every chunk-data for it
\* that is handled is rejected as not being downloaded.
C36_EntryDestroyed ==
    \A id \in PackIDs :
        (PackResolved(id) \/ Abandoned(id)) =>
            /\ id \notin DOMAIN downloading
            /\ id \notin awaiting
            /\ Dispatches("ResourcePackChunkData") =>
                   \A tok \in WireIDs, index \in 0..MaxSize, n \in 0..MaxChunkSize :
                       SplitFirst(tok) = id =>
                           ChunkDataResult(tok, index, n).err = "not being downloaded"

\* C37: the queued packs, in downloadingPacks or in awaitingPacks, that are
\* not resolved yet.
Unresolved == {id \in DOMAIN downloading \cup awaiting : ~PackResolved(id)}

\* C37: after OnResourcePacksInfo returned, the outstanding-pack counter is
\* the number of queued packs not yet resolved, and it is never negative.
C37_CounterCountsUnresolved ==
    hasQueue => packAmount = Cardinality(Unresolved) /\ packAmount >= 0

\* C37: of two queued packs, one is resolved and the other is still being
\* downloaded.
C37_Witness ==
    /\ hasQueue /\ packAmount = 1
    /\ \E id, other \in PackIDs :
          /\ PackResolved(id)
          /\ other \in awaiting /\ worker[other].pc = "select"

\* C38: no pack id is in downloadingPacks and in awaitingPacks at once, and a
\* data-info for an id whose worker was launched already is rejected with an
\* error and launches no second worker.
C38_OneWorkerPerPack ==
    /\ DOMAIN downloading \cap awaiting = {}
    /\ Dispatches("ResourcePackDataInfo") =>
           \A tok \in WireIDs : \A info \in DataInfos(tok) :
               (SplitFirst(tok) \in PackIDs /\ worker[SplitFirst(tok)].pc # "none") =>
                   LET res == DataInfoResult(tok, info[1], info[2])
                   IN  /\ res.err = "unknown pack to download"
                       /\ ~res.launched
                       /\ res.worker = worker

\* C38: the worker of a pack is under way, with a fragment written, and a
\* data-info may be handled.
C38_Witness ==
    /\ Dispatches("ResourcePackDataInfo")
    /\ \E id \in awaiting : worker[id].pc = "select" /\ Len(packs[id].buf) = 1

\* C39: whenever the receive path may handle a chunk-data, which reads the
\* length of the pack's buffer, the worker of no awaited pack is about to
\* append to that buffer, and the buffer holds every fragment accepted before.
C39_LengthReadAfterAppend ==
    Dispatches("ResourcePackChunkData") =>
        \A id \in awaiting :
            /\ worker[id].pc # "write"
            /\ Len(packs[id].buf) = packs[id].expectedIndex

\* C40: for every data-info that names a pack in downloadingPacks, whatever
\* size and chunk size it declares, OnResourcePackDataInfo does not fault, and
\* the chunk count it gives the worker is ceil(size / chunkSize).
C40_ChunkCountTotal ==
    Dispatches("ResourcePackDataInfo") =>
        \A tok \in WireIDs : \A info \in DataInfos(tok) :
            SplitFirst(tok) \in DOMAIN downloading =>
                LET res == DataInfoResult(tok, info[1], info[2])
                IN  /\ res.err # "panic"
                    /\ res.launched =>
                           IsCeil(res.worker[SplitFirst(tok)].chunkCount, info[1], info[2])

====
